---- MODULE Spec2Model ----
(***************************************************************************)
(* Model of the agent pipeline of MCPhelper: the ToolExecutor              *)
(* (src/backend/core/executor.py), the AgentOrchestrator                   *)
(* (src/backend/core/agent_orchestrator.py) with the LLMSummarizer         *)
(* (src/backend/core/summarizer.py), the LLMPlanValidator                  *)
(* (src/core/validator.py) and the LLMClient                               *)
(* (src/backend/utils/llm_client.py).                                      *)
(*                                                                         *)
(* Python strings are sequences of one-character strings, so that          *)
(* str.replace, str.startswith and the "in" test are computed character by *)
(* character.  Python values are tagged records: str, int, None, dict and  *)
(* list; a dict is a function from its present keys to values, so that     *)
(* dict.get can tell an absent key from a null value.  A text produced by  *)
(* the model is a sequence of lexemes (fence, white space, prose, JSON     *)
(* document).                                                              *)
(*                                                                         *)
(* SpecExec runs ToolExecutor.execute on every bounded plan; Spec runs     *)
(* AgentOrchestrator.execute_query, which calls the same executor.  The    *)
(* tool provider is a stub with a plain method echo, a coroutine method    *)
(* aecho and a method fail that raises.                                    *)
(*                                                                         *)
(* SpecValidate runs LLMPlanValidator.validate on every bounded raw plan;  *)
(* there the text is taken apart into its characters, the regular          *)
(* expression picks the array and a JSON decoder reads it.  SpecClient     *)
(* runs chat calls and mode reads of one caller on one LLMClient,          *)
(* SpecClientConc those of the API thread and the console thread of        *)
(* backend/main.py.  SpecConc runs two invocations of execute on the one   *)
(* ToolExecutor of backend/main.py.                                        *)
(*                                                                         *)
(* SpecRegistry resolves tool names and renders the tool descriptions over *)
(* the providers of backend/tool_registry.py.  SpecTerminates runs         *)
(* execute_query and the chat calls under weak fairness.  SpecSession runs *)
(* execute of the session-based executor (src/core/executor.py), which     *)
(* calls the tools through a session.  SpecSandbox runs read_file and      *)
(* delete_file of SystemTools (src/backend/tools/system_tools.py) on paths *)
(* put together from separators, ".." and directory names; os.path.join    *)
(* and os.path.normpath are computed on the characters of the path.        *)
(***************************************************************************)
EXTENDS Integers, Sequences, FiniteSets, TLC

\* ------------------------------------------------------------------ bounds
\* Longest plan (JSON array) handed to ToolExecutor.execute directly.
MaxPlanLen == 3
\* Longest plan (JSON array) the planner emits in execute_query.
MaxOrchPlanLen == 2
\* Longest array given to LLMPlanValidator.validate.
MaxValPlanLen == 2
\* Most calls made on one LLMClient.
MaxCalls == 2
\* Longest plan of an invocation that shares the executor with another.
MaxConcPlanLen == 2
\* longest registration of providers
MaxProviders == 2
\* most lookups made on one registration
MaxLookups == 2
\* longest plan given to the session-based executor
MaxSessPlanLen == 2
\* most atoms (separators and names) an argument path is made of
MaxPathAtoms == 5

\* ------------------------------------------------------- string literals
\* executor.py:52-53, the substitution token
TOKEN == <<"P","R","E","V","I","O","U","S","_","R","E","S","U","L","T">>
\* executor.py:45, the literal tool name that is skipped
STEP_LIT == <<"s","t","e","p">>
\* executor.py:61, f"Error: Tool '{tool_name}' not found."
NotFoundPre == <<"E","r","r","o","r",":"," ","T","o","o","l"," ","'">>
NotFoundPost == <<"'"," ","n","o","t"," ","f","o","u","n","d",".">>
\* executor.py:75, f"Error executing {tool_name}: {str(e)}"
ErrExecPre == <<"E","r","r","o","r"," ","e","x","e","c","u","t","i","n","g"," ">>
ColonSp == <<":"," ">>
\* executor.py:35
InvalidPlanMsg == <<"E","r","r","o","r",":"," ","I","n","v","a","l","i","d"," ","p","l","a","n"," ","f","o","r","m","a","t","."," ","E","x","p","e","c","t","e","d"," ","a"," ","l","i","s","t"," ","o","f"," ","s","t","e","p","s",".">>
\* str(None)
NoneStr == <<"N","o","n","e">>
\* names of the methods of the registered provider, and one unregistered name
T_echo == <<"e","c","h","o">>
T_aecho == <<"a","e","c","h","o">>
T_fail == <<"f","a","i","l">>
T_nope == <<"n","o","p","e">>
\* argument texts, handler messages
S_X == <<"X">>
S_dashY == <<"-","Y">>
S_42 == <<"4","2">>
S_boom == <<"b","o","o","m">>
S_timeout == <<"t","i","m","e","o","u","t">>
S_missing == <<"m","i","s","s","i","n","g"," ","1"," ","r","e","q","u","i","r","e","d"," ","p","o","s","i","t","i","o","n","a","l"," ","a","r","g","u","m","e","n","t",":"," ","'","m","s","g","'">>

\* summarizer.py:21, the prefix of the results that are filtered out
StartsErrExec == <<"E","r","r","o","r"," ","e","x","e","c","u","t","i","n","g">>
\* summarizer.py:24
NoResultsMsg == <<"N","o"," ","s","e"," ","p","u","d","i","e","r","o","n"," ","o","b","t","e","n","e","r"," ","r","e","s","u","l","t","a","d","o","s","."," ","P","o","r"," ","f","a","v","o","r"," ","i","n","t","e","n","t","a"," ","d","e"," ","n","u","e","v","o",".">>
\* agent_orchestrator.py:49
NoResponseMsg == <<"N","o"," ","r","e","s","p","o","n","s","e"," ","g","e","n","e","r","a","t","e","d",".">>
\* agent_orchestrator.py:74
AgentErrPre == <<"*","*","A","g","e","n","t"," ","E","x","e","c","u","t","i","o","n"," ","E","r","r","o","r",":","*","*"," ">>
\* agent_orchestrator.py:27, the end of the rewrite prompt, before the query
RewriteTail == <<"O","N","L","Y"," ","O","U","T","P","U","T"," ","T","H","E"," ","R","E","W","R","I","T","T","E","N"," ","Q","U","E","R","Y",":","\n">>
\* agent_orchestrator.py:42, the type of every response
T_text == <<"t","e","x","t">>
\* llm_client.py:130-131
M_local == <<"l","o","c","a","l">>
M_gemini == <<"g","e","m","i","n","i">>
\* llm_client.py:124
S_backend == <<"G","e","m","i","n","i"," ","A","P","I"," ","f","a","i","l","e","d"," ","a","f","t","e","r"," ","r","e","t","r","i","e","s">>
\* the text of Python's AttributeError, type names and attribute names
S_noattr == <<"'"," ","o","b","j","e","c","t"," ","h","a","s"," ","n","o"," ","a","t","t","r","i","b","u","t","e"," ","'">>
N_NoneType == <<"N","o","n","e","T","y","p","e">>
N_str == <<"s","t","r">>
N_int == <<"i","n","t">>
N_dict == <<"d","i","c","t">>
N_list == <<"l","i","s","t">>
A_strip == <<"s","t","r","i","p">>
A_replace == <<"r","e","p","l","a","c","e">>
A_get == <<"g","e","t">>
\* user texts and model outputs
S_hi == <<"h","i">>
S_Apple == <<"A","p","p","l","e"," ","s","t","o","c","k">>
S_AAPL == <<" ","A","A","P","L"," ","s","t","o","c","k","\n">>
S_report == <<"r","e","p","o","r","t">>
S_sure == <<"S","u","r","e","!">>
\* ------------------------------------------------------------ str methods
\* s[i:i+len(t)] == t
MatchAt(s, t, i) ==
    /\ i + Len(t) - 1 <= Len(s)
    /\ SubSeq(s, i, i + Len(t) - 1) = t

\* t in s
Contains(s, t) == \E i \in 1..(Len(s) + 1) : MatchAt(s, t, i)

\* s.startswith(t)
StartsWith(s, t) == MatchAt(s, t, 1)

\* s.replace(old, new) for a non-empty old: left-to-right, non-overlapping
RECURSIVE ReplaceFrom(_, _, _, _)
ReplaceFrom(s, old, new, i) ==
    IF i > Len(s) THEN <<>>
    ELSE IF MatchAt(s, old, i)
         THEN new \o ReplaceFrom(s, old, new, i + Len(old))
         ELSE <<s[i]>> \o ReplaceFrom(s, old, new, i + 1)

StrReplace(s, old, new) == ReplaceFrom(s, old, new, 1)

\* ---------------------------------------------------------- Python values
StrV(s) == [t |-> "str", s |-> s]
IntV(n) == [t |-> "int", n |-> n]
NoneV == [t |-> "none"]
DictV(d) == [t |-> "dict", d |-> d]
ListV(l) == [t |-> "list", l |-> l]
EmptyDict == [k \in {} |-> NoneV]

IsStr(v) == v.t = "str"
IsDict(v) == v.t = "dict"
IsList(v) == v.t = "list"

\* d.get(key) and d.get(key, default) of a dict value
DictGet(v, key, default) == IF key \in DOMAIN v.d THEN v.d[key] ELSE default

\* bool(v): None, "", 0, {} and [] are falsy
Truthy(v) ==
    CASE v.t = "none" -> FALSE
      [] v.t = "str" -> v.s # <<>>
      [] v.t = "int" -> v.n # 0
      [] v.t = "dict" -> DOMAIN v.d # {}
      [] v.t = "list" -> v.l # <<>>

Digit(d) == <<"0", "1", "2", "3", "4", "5", "6", "7", "8", "9">>[d + 1]

RECURSIVE NatStr(_)
NatStr(n) == IF n < 10 THEN <<Digit(n)>> ELSE NatStr(n \div 10) \o <<Digit(n % 10)>>

\* str(v) for the values a handler returns here
Str(v) ==
    CASE v.t = "str" -> v.s
      [] v.t = "int" -> NatStr(v.n)
      [] v.t = "none" -> NoneStr

\* ------------------------------------------------------- the tool provider
\* The provider registered with the executor: echo(msg) returns msg verbatim,
\* aecho(msg) is its coroutine twin doing I/O that may fail, fail(msg) raises.
ToolMethods == {T_echo, T_aecho, T_fail}

\* asyncio.iscoroutinefunction(tool_method)
IsCoroutine(h) == h = T_aecho

\* _find_tool: the method named tool_name of a registered instance, or None
FindTool(tool_name) ==
    IF ~Truthy(tool_name) \/ ~IsStr(tool_name) THEN NoneV
    ELSE IF tool_name.s \in ToolMethods THEN StrV(tool_name.s)
    ELSE NoneV

Returned(v) == [ok |-> TRUE, val |-> v]
Raised(kind, m) == [ok |-> FALSE, kind |-> kind, msg |-> m]

\* tool_method(**processed_args): what the call can do.  Binding the keyword
\* arguments to the signature (msg) raises TypeError when msg is missing.
CallOutcomes(h, pargs) ==
    IF DOMAIN pargs # {"msg"} THEN {Raised("TypeError", S_missing)}
    ELSE IF h = T_echo THEN {Returned(pargs["msg"])}
    ELSE IF h = T_aecho THEN {Returned(pargs["msg"]), Raised("TimeoutError", S_timeout)}
    ELSE {Raised("Exception", S_boom)}

\* ----------------------------------------------------------------- state
VARIABLES
    plan,           \* the argument of execute
    epc,            \* position of execute: idle, loop, await, returned, raised
    idx,            \* 1-based position of the for loop in plan
    results_cache,  \* self.results_cache
    last_result,    \* the carry value
    inflight,       \* the awaited handler call, or NoneV
    exec_ret,       \* the list execute returned
    substLog,       \* history: every substitution done, with the carry it used
    callLog,        \* history: every handler invocation with its arguments
    outLog,         \* history: how each handler invocation ended
    resultPos,      \* history: plan position of each element of results_cache
    cmd,            \* the argument of execute_query
    opc,            \* position of execute_query: off, start, plan, execute,
                    \* fallback, done, raised
    resolved_cmd,   \* the rewritten query
    raw_plan,       \* history: what planner.plan returned
    response,       \* the mapping execute_query returned
    events,         \* history: the calls to the model client, executor, summarizer
    raisedLog,      \* history: the exceptions raised inside execute_query
    llm_mode        \* LLMClient.mode, decided by the cached probe

ovars == <<cmd, opc, resolved_cmd, raw_plan, response, events, raisedLog, llm_mode>>

evars == <<plan, epc, idx, results_cache, last_result, inflight, exec_ret,
           substLog, callLog, outLog, resultPos>>

\* The state of the other components: one validate call, one LLMClient
\* instance with the threads calling it, and the invocations of execute that
\* share one ToolExecutor.
VARIABLES
    vraw,            \* the argument raw_plan of validate
    vpc,             \* position of validate: off, start, done, raised
    vret,            \* the list validate returned
    vevents,         \* history: the model calls validate made
    vexc,            \* the exception that left validate, or NoneV
    threads,         \* the threads that call the client
    prefer_local,    \* self.prefer_local
    local_available, \* self._local_available
    lpc,             \* per thread: its position inside chat or mode
    lcur,            \* per thread: the call it is in
    started,         \* number of calls made on the client so far
    probeLog,        \* history: the liveness probes issued
    chatLog,         \* history: the calls that ended, and how
    threaded,        \* the invocations run on two threads, or on one event loop
    running,         \* the invocation holding the event loop, or NoneV
    cplan,           \* per invocation: the argument of execute
    cpc,             \* per invocation: position of execute
    cidx,            \* per invocation: position of the for loop
    clast,           \* per invocation: the local last_result
    cret,            \* per invocation: the list object execute returned
    heap,            \* the list objects created so far
    cache,           \* self.results_cache: the list object it refers to
    cmine            \* history, per invocation: the results of its own steps

vvars == <<vraw, vpc, vret, vevents, vexc>>

lvars == <<threads, prefer_local, local_available, lpc, lcur, started,
           probeLog, chatLog>>

cvars == <<threaded, running, cplan, cpc, cidx, clast, cret, heap, cache, cmine>>

\* The state of the remaining components: the tool instances registered in
\* backend/main.py with the lookups made on them.
VARIABLES
    tool_instances,  \* the dict register_tools returned, in insertion order
    rpc,             \* the registry is in use: off, ready
    lookups,         \* history: the calls of _find_tool and what they returned
    described        \* history: the names get_tool_descriptions rendered

rvars == <<tool_instances, rpc, lookups, described>>

\* One execute call of the session-based executor (src/core/executor.py),
\* and one file operation of SystemTools.
VARIABLES
    splan,           \* the plan object execute was given, as it is now
    sgiven,          \* history: the plan as it was when execute was called
    spc,             \* position of execute: off, loop, await, returned, raised
    sidx,            \* 1-based position of the for loop in the plan
    sresults,        \* the local list results
    slast,           \* the local last_result
    scalls,          \* history: the calls of session.call_tool
    fop,             \* the file operation called
    fpath,           \* its argument path
    fconfirm,        \* its argument confirm
    fpc,             \* position of the operation: off, start, done, raised
    fout             \* the file it touched, or the exception it raised

kvars == <<splan, sgiven, spc, sidx, sresults, slast, scalls>>

svars == <<fop, fpath, fconfirm, fpc, fout>>

yvars == <<rvars, kvars, svars>>

xvars == <<vvars, lvars, cvars, yvars>>

\* --------------------------------------------------------- bounded inputs
Step(tool, args) == DictV([tool |-> tool, args |-> args])
MsgArgs(v) == DictV([msg |-> v])

\* Steps a planner can emit: well-formed ones, and every malformed shape the
\* executor guards against.
StepSet ==
    { Step(StrV(T_echo), MsgArgs(StrV(S_X))),
      Step(StrV(T_echo), MsgArgs(StrV(TOKEN \o S_dashY))),
      Step(StrV(T_echo), MsgArgs(StrV(SubSeq(TOKEN, 1, 9) \o TOKEN \o TOKEN))),
      Step(StrV(T_echo), MsgArgs(IntV(42))),
      Step(StrV(T_aecho), MsgArgs(StrV(TOKEN))),
      Step(StrV(T_fail), MsgArgs(StrV(S_X))),
      Step(StrV(T_nope), MsgArgs(StrV(TOKEN))),
      Step(StrV(T_echo), StrV(TOKEN)),
      Step(IntV(5), DictV(EmptyDict)),
      Step(StrV(STEP_LIT), MsgArgs(StrV(S_X))),
      Step(StrV(<<>>), MsgArgs(StrV(S_X))),
      DictV([tool |-> NoneV, response |-> StrV(S_42)]),
      DictV([response |-> StrV(S_42)]),
      StrV(S_X) }

RECURSIVE SeqsUpTo(_, _)
SeqsUpTo(S, n) ==
    IF n = 0 THEN {<<>>}
    ELSE LET shorter == SeqsUpTo(S, n - 1)
         IN shorter \cup {Append(q, e) : q \in {r \in shorter : Len(r) = n - 1}, e \in S}

\* Arguments of execute: every list of at most MaxPlanLen steps, and a plan
\* that is no list.
PlanInputs == {ListV(q) : q \in SeqsUpTo(StepSet, MaxPlanLen)} \cup {DictV(EmptyDict)}

\* ------------------------------------------------------------- execute
\* executor.py:42-43
ToolOf(step) == DictGet(step, "tool", NoneV)
ArgsOf(step) == DictGet(step, "args", DictV(EmptyDict))

\* Mutant of Skipped: the guard against the tool name "step" is missing.
Skipped_NoStepGuard(step) ==
    IF ~IsDict(step) THEN TRUE
    ELSE ~Truthy(ToolOf(step))

\* executor.py:39-46: the step is skipped
Skipped(step) ==
    IF ~IsDict(step) THEN TRUE
    ELSE IF ~Truthy(ToolOf(step)) THEN TRUE
    ELSE ToolOf(step) = StrV(STEP_LIT)

\* Mutant of SubstValue: an argument holding the token is replaced as a whole
\* by the carry.
SubstValue_Whole(v, carry) ==
    IF IsStr(v) /\ Contains(v.s, TOKEN) THEN StrV(Str(carry)) ELSE v

\* executor.py:52-55: one argument value
SubstValue(v, carry) ==
    IF IsStr(v) /\ Contains(v.s, TOKEN)
    THEN StrV(StrReplace(v.s, TOKEN, Str(carry)))
    ELSE v

\* executor.py:49-57: processed_args
ProcessedArgs(args, carry) ==
    IF IsDict(args)
    THEN [k \in DOMAIN args.d |-> SubstValue(args.d[k], carry)]
    ELSE EmptyDict

\* Mutant of NotFoundMsg: the unresolved tool is called all the same and the
\* TypeError of calling None is recorded.
NotFoundMsg_CallNone(tool_name) ==
    ErrExecPre \o Str(tool_name) \o ColonSp \o N_NoneType

\* executor.py:61
NotFoundMsg(tool_name) == NotFoundPre \o Str(tool_name) \o NotFoundPost

\* executor.py:75
ErrExecMsg(tool_name, m) == ErrExecPre \o Str(tool_name) \o ColonSp \o m

CurStep == plan.l[idx]

\* executor.py:30-37: execute is entered with a list
ExecEnter ==
    /\ UNCHANGED xvars
    /\ UNCHANGED ovars
    /\ epc = "idle"
    /\ IsList(plan)
    /\ results_cache' = <<>>
    /\ last_result' = StrV(<<>>)
    /\ idx' = 1
    /\ epc' = "loop"
    /\ resultPos' = <<>>
    /\ UNCHANGED <<plan, inflight, exec_ret, substLog, callLog, outLog>>

\* executor.py:30-35: execute is entered with something that is no list
ExecInvalidPlan ==
    /\ UNCHANGED xvars
    /\ UNCHANGED ovars
    /\ epc = "idle"
    /\ ~IsList(plan)
    /\ results_cache' = <<>>
    /\ last_result' = StrV(<<>>)
    /\ resultPos' = <<>>
    /\ exec_ret' = <<InvalidPlanMsg>>
    /\ epc' = "returned"
    /\ UNCHANGED <<plan, idx, inflight, substLog, callLog, outLog>>

\* executor.py:39-46: continue
ExecSkipStep ==
    /\ UNCHANGED xvars
    /\ UNCHANGED ovars
    /\ epc = "loop"
    /\ idx <= Len(plan.l)
    /\ Skipped(CurStep)
    /\ idx' = idx + 1
    /\ UNCHANGED <<plan, epc, results_cache, last_result, inflight, exec_ret,
                   substLog, callLog, outLog, resultPos>>

LogSubst ==
    substLog' = Append(substLog,
        [pos |-> idx, carry |-> Str(last_result),
         args |-> ProcessedArgs(ArgsOf(CurStep), last_result)])

\* Mutant of ExecCatches: the except clause misses the TypeError of a call
\* whose arguments do not fit the signature.
ExecCatches_NoTypeError(kind) == kind \in {"Exception", "TimeoutError"}

\* executor.py:74: except Exception catches every exception a handler raises
\* here (TypeError and TimeoutError are subclasses of Exception)
ExecCatches(kind) == kind \in {"Exception", "TypeError", "TimeoutError"}

\* Mutant of Record: after a handler raised, the carry keeps its old value.
Record_StaleCarry(tool_name, out) ==
    /\ outLog' = Append(outLog, [pos |-> idx, out |-> out])
    /\ IF out.ok
       THEN /\ results_cache' = Append(results_cache, Str(out.val))
            /\ last_result' = out.val
            /\ resultPos' = Append(resultPos, idx)
            /\ idx' = idx + 1
            /\ epc' = "loop"
       ELSE IF ExecCatches(out.kind)
       THEN /\ results_cache' = Append(results_cache, ErrExecMsg(tool_name, out.msg))
            /\ UNCHANGED last_result
            /\ resultPos' = Append(resultPos, idx)
            /\ idx' = idx + 1
            /\ epc' = "loop"
       ELSE /\ epc' = "raised"
            /\ UNCHANGED <<results_cache, last_result, resultPos, idx>>

\* executor.py:72-77: record the outcome of step idx and go on with the next
\* step; an exception the except clause does not catch leaves execute
Record(tool_name, out) ==
    /\ outLog' = Append(outLog, [pos |-> idx, out |-> out])
    /\ IF out.ok
       THEN /\ results_cache' = Append(results_cache, Str(out.val))
            /\ last_result' = out.val
            /\ resultPos' = Append(resultPos, idx)
            /\ idx' = idx + 1
            /\ epc' = "loop"
       ELSE IF ExecCatches(out.kind)
       THEN /\ results_cache' = Append(results_cache, ErrExecMsg(tool_name, out.msg))
            /\ last_result' = StrV(ErrExecMsg(tool_name, out.msg))
            /\ resultPos' = Append(resultPos, idx)
            /\ idx' = idx + 1
            /\ epc' = "loop"
       ELSE /\ epc' = "raised"
            /\ UNCHANGED <<results_cache, last_result, resultPos, idx>>

\* Mutant of ExecToolNotFound: the carry is not set to the error text.
ExecToolNotFound_KeepCarry ==
    /\ UNCHANGED xvars
    /\ UNCHANGED ovars
    /\ epc = "loop"
    /\ idx <= Len(plan.l)
    /\ ~Skipped(CurStep)
    /\ FindTool(ToolOf(CurStep)) = NoneV
    /\ LogSubst
    /\ results_cache' = Append(results_cache, NotFoundMsg(ToolOf(CurStep)))
    /\ resultPos' = Append(resultPos, idx)
    /\ idx' = idx + 1
    /\ UNCHANGED <<plan, epc, last_result, inflight, exec_ret, callLog, outLog>>

\* executor.py:59-64: the tool does not resolve
ExecToolNotFound ==
    /\ UNCHANGED xvars
    /\ UNCHANGED ovars
    /\ epc = "loop"
    /\ idx <= Len(plan.l)
    /\ ~Skipped(CurStep)
    /\ FindTool(ToolOf(CurStep)) = NoneV
    /\ LogSubst
    /\ results_cache' = Append(results_cache, NotFoundMsg(ToolOf(CurStep)))
    /\ last_result' = StrV(NotFoundMsg(ToolOf(CurStep)))
    /\ resultPos' = Append(resultPos, idx)
    /\ idx' = idx + 1
    /\ UNCHANGED <<plan, epc, inflight, exec_ret, callLog, outLog>>

\* executor.py:66-77: a plain method is called and returns or raises
ExecCallSync ==
    /\ UNCHANGED xvars
    /\ UNCHANGED ovars
    /\ epc = "loop"
    /\ idx <= Len(plan.l)
    /\ ~Skipped(CurStep)
    /\ FindTool(ToolOf(CurStep)) # NoneV
    /\ ~IsCoroutine(FindTool(ToolOf(CurStep)).s)
    /\ LogSubst
    /\ LET h == FindTool(ToolOf(CurStep)).s
           pargs == ProcessedArgs(ArgsOf(CurStep), last_result)
       IN /\ callLog' = Append(callLog, [pos |-> idx, tool |-> h, args |-> pargs])
          /\ \E out \in CallOutcomes(h, pargs) : Record(ToolOf(CurStep), out)
    /\ UNCHANGED <<plan, inflight, exec_ret>>

\* Mutant of ExecCallAsync: the coroutine is started and not awaited, the
\* loop goes on with the next step.
ExecCallAsync_NoAwait ==
    /\ UNCHANGED xvars
    /\ UNCHANGED ovars
    /\ epc = "loop"
    /\ idx <= Len(plan.l)
    /\ ~Skipped(CurStep)
    /\ FindTool(ToolOf(CurStep)) # NoneV
    /\ IsCoroutine(FindTool(ToolOf(CurStep)).s)
    /\ LogSubst
    /\ LET h == FindTool(ToolOf(CurStep)).s
           pargs == ProcessedArgs(ArgsOf(CurStep), last_result)
       IN /\ callLog' = Append(callLog, [pos |-> idx, tool |-> h, args |-> pargs])
          /\ inflight' = [pos |-> idx, tool |-> h, args |-> pargs]
    /\ idx' = idx + 1
    /\ UNCHANGED <<plan, epc, results_cache, last_result, exec_ret, outLog,
                   resultPos>>

\* executor.py:67-68: a coroutine method is called and execute awaits it
ExecCallAsync ==
    /\ UNCHANGED xvars
    /\ UNCHANGED ovars
    /\ epc = "loop"
    /\ idx <= Len(plan.l)
    /\ ~Skipped(CurStep)
    /\ FindTool(ToolOf(CurStep)) # NoneV
    /\ IsCoroutine(FindTool(ToolOf(CurStep)).s)
    /\ LogSubst
    /\ LET h == FindTool(ToolOf(CurStep)).s
           pargs == ProcessedArgs(ArgsOf(CurStep), last_result)
       IN /\ callLog' = Append(callLog, [pos |-> idx, tool |-> h, args |-> pargs])
          /\ inflight' = [pos |-> idx, tool |-> h, args |-> pargs]
    /\ epc' = "await"
    /\ UNCHANGED <<plan, idx, results_cache, last_result, exec_ret, outLog,
                   resultPos>>

\* executor.py:68, 72-77: the awaited coroutine returns or raises
ExecResumeAsync ==
    /\ UNCHANGED xvars
    /\ UNCHANGED ovars
    /\ epc = "await"
    /\ \E out \in CallOutcomes(inflight.tool, inflight.args) :
           Record(ToolOf(CurStep), out)
    /\ inflight' = NoneV
    /\ UNCHANGED <<plan, exec_ret, substLog, callLog>>

\* executor.py:79
ExecReturn ==
    /\ UNCHANGED xvars
    /\ UNCHANGED ovars
    /\ epc = "loop"
    /\ idx > Len(plan.l)
    /\ exec_ret' = results_cache
    /\ epc' = "returned"
    /\ UNCHANGED <<plan, idx, results_cache, last_result, inflight, substLog,
                   callLog, outLog, resultPos>>

\* --------------------------------------------------------- raw model text
\* A text produced by the model is a sequence of lexemes: a markdown fence
\* ("```json" or "```"), white space, a run of prose, or a JSON document.
FenceJson == [lx |-> "fence_json"]
Fence == [lx |-> "fence"]
Ws == [lx |-> "ws"]
Word(s) == [lx |-> "word", s |-> s]
Json(doc) == [lx |-> "json", doc |-> doc]
TextV(lex) == [t |-> "text", lex |-> lex]

\* text.replace(fence, "")
RemoveLex(lex, kind) == SelectSeq(lex, LAMBDA x : x.lx # kind)

\* text.strip()
RECURSIVE StripLex(_)
StripLex(lex) ==
    IF lex = <<>> THEN lex
    ELSE IF Head(lex) = Ws THEN StripLex(Tail(lex))
    ELSE IF lex[Len(lex)] = Ws THEN StripLex(SubSeq(lex, 1, Len(lex) - 1))
    ELSE lex

\* agent_orchestrator.py:36
CleanPlan(lex) == StripLex(RemoveLex(RemoveLex(lex, "fence_json"), "fence"))

\* json.loads: the text must be one JSON document and nothing else
JsonLoads(lex) ==
    IF Len(lex) = 1 /\ lex[1].lx = "json"
    THEN [ok |-> TRUE, val |-> lex[1].doc]
    ELSE [ok |-> FALSE]

\* str.strip() of a character string
IsSpace(c) == c \in {" ", "\n"}

RECURSIVE StrStrip(_)
StrStrip(s) ==
    IF s = <<>> THEN s
    ELSE IF IsSpace(Head(s)) THEN StrStrip(Tail(s))
    ELSE IF IsSpace(s[Len(s)]) THEN StrStrip(SubSeq(s, 1, Len(s) - 1))
    ELSE s

TypeName(v) ==
    CASE v.t = "none" -> N_NoneType
      [] v.t = "str" -> N_str
      [] v.t = "int" -> N_int
      [] v.t = "dict" -> N_dict
      [] v.t = "list" -> N_list

\* the AttributeError of value.attr on a value that has no such attribute
AttributeError(v, attr) ==
    Raised("AttributeError", <<"'">> \o TypeName(v) \o S_noattr \o attr \o <<"'">>)

\* ------------------------------------------------------- bounded inputs
UserTexts == {S_hi, S_Apple}

\* LLMClient.chat: returns a text, returns None (an empty completion), or
\* raises after the retries are used up (llm_client.py:124)
ChatOutcomes(texts) ==
    {Returned(StrV(s)) : s \in texts}
        \cup {Returned(NoneV), Raised("Exception", S_backend)}

OrchSteps ==
    { Step(StrV(T_echo), MsgArgs(StrV(S_X))),
      Step(StrV(T_echo), MsgArgs(StrV(TOKEN \o S_dashY))),
      Step(StrV(T_aecho), MsgArgs(StrV(TOKEN))),
      Step(StrV(T_nope), MsgArgs(StrV(S_X))),
      Step(StrV(T_fail), MsgArgs(StrV(S_X))),
      Step(StrV(<<>>), MsgArgs(StrV(S_X))),
      DictV([tool |-> NoneV, response |-> StrV(S_42)]),
      DictV([step |-> IntV(1)]),
      StrV(S_X) }

JsonDocs ==
    {ListV(q) : q \in SeqsUpTo(OrchSteps, MaxOrchPlanLen)}
        \cup {DictV([tool |-> NoneV, response |-> StrV(S_42)]), IntV(42)}

\* What planner.plan can return: a bare JSON document, one inside a markdown
\* fence, one after a sentence of prose, or prose alone; or None.
RawPlans ==
    {TextV(<<Json(d)>>) : d \in JsonDocs}
        \cup {TextV(<<FenceJson, Ws, Json(d), Ws, Fence>>) : d \in JsonDocs}
        \cup {TextV(<<Word(S_sure), Ws, Json(ListV(<<Step(StrV(T_echo), MsgArgs(StrV(S_X)))>>))>>),
              TextV(<<Fence, Word(S_sure), Fence, Ws>>),
              TextV(<<>>)}

PlannerOutcomes ==
    {Returned(r) : r \in RawPlans}
        \cup {Returned(NoneV), Raised("Exception", S_backend)}

\* ---------------------------------------------------------- execute_query
\* One entry of the call history: a model call ("chat") or a component call
\* ("call"), who made it, its argument and how it ended (NoneV: still open).
\* The callers are the collaborators AgentOrchestrator.__init__ is given
\* (agent_orchestrator.py:12-17): the model client ("preprocess", "direct"),
\* the planner, the executor and the summarizer.  It is given no validator:
\* the LLMPlanValidator of backend/main.py:39 is never called.
Event(op, by, arg, out) == [op |-> op, by |-> by, arg |-> arg, out |-> out]

\* agent_orchestrator.py:42, 57-61, 65-69
ResponseWithMode(content) ==
    DictV([type |-> StrV(T_text), content |-> content, mode |-> StrV(llm_mode)])

\* agent_orchestrator.py:49, 74
Response(content) == DictV([type |-> StrV(T_text), content |-> content])

\* Mutant of OrchCatches: the except clause names the backend failure only.
OrchCatches_BackendOnly(kind) == kind = "Exception"

\* agent_orchestrator.py:71: except Exception catches every exception raised
\* inside the try block
OrchCatches(kind) == kind \in {"Exception", "AttributeError", "TypeError"}

\* agent_orchestrator.py:71-74: an exception raised inside the try block
Fail(e) ==
    /\ raisedLog' = Append(raisedLog, e)
    /\ IF OrchCatches(e.kind)
       THEN /\ response' = Response(StrV(AgentErrPre \o e.msg))
            /\ opc' = "done"
       ELSE /\ opc' = "raised"
            /\ UNCHANGED response

\* agent_orchestrator.py:24-29: the query is rewritten by one model call
OrchPreProcess ==
    /\ UNCHANGED xvars
    /\ opc = "start"
    /\ \E out \in ChatOutcomes({S_AAPL}) :
        /\ events' = Append(events,
               Event("chat", "preprocess", StrV(RewriteTail \o cmd), out))
        /\ IF ~out.ok THEN Fail(out) /\ UNCHANGED resolved_cmd
           ELSE IF ~IsStr(out.val)
           THEN Fail(AttributeError(out.val, A_strip)) /\ UNCHANGED resolved_cmd
           ELSE /\ resolved_cmd' = StrStrip(out.val.s)
                /\ opc' = "plan"
                /\ UNCHANGED <<response, raisedLog>>
    /\ UNCHANGED <<cmd, llm_mode, raw_plan>>
    /\ UNCHANGED evars

PlannerCalled(out) == Event("chat", "planner", StrV(resolved_cmd), out)

\* agent_orchestrator.py:33-36: planner.plan raises, or returns no string
OrchPlanRaises ==
    /\ UNCHANGED xvars
    /\ opc = "plan"
    /\ \E out \in PlannerOutcomes :
          /\ IF out.ok THEN out.val.t # "text" ELSE TRUE
          /\ events' = Append(events, PlannerCalled(out))
          /\ raw_plan' = IF out.ok THEN out.val ELSE NoneV
          /\ Fail(IF out.ok THEN AttributeError(out.val, A_replace) ELSE out)
    /\ UNCHANGED <<cmd, llm_mode, resolved_cmd>>
    /\ UNCHANGED evars

IsText(out) == out.ok /\ out.val.t = "text"
Parsed(out) == JsonLoads(CleanPlan(out.val.lex))

\* Mutant of OrchPlanDirectText: a plan that is no JSON falls through to the
\* direct model call.
OrchPlanDirectText_Fallback ==
    /\ UNCHANGED xvars
    /\ opc = "plan"
    /\ \E out \in PlannerOutcomes :
          /\ IsText(out)
          /\ ~Parsed(out).ok
          /\ events' = Append(events, PlannerCalled(out))
          /\ raw_plan' = out.val
    /\ opc' = "fallback"
    /\ UNCHANGED <<cmd, llm_mode, resolved_cmd, response, raisedLog>>
    /\ UNCHANGED evars

\* agent_orchestrator.py:33-42: the plan is no JSON, it is the answer
OrchPlanDirectText ==
    /\ UNCHANGED xvars
    /\ opc = "plan"
    /\ \E out \in PlannerOutcomes :
          /\ IsText(out)
          /\ ~Parsed(out).ok
          /\ events' = Append(events, PlannerCalled(out))
          /\ raw_plan' = out.val
          /\ response' = ResponseWithMode(TextV(CleanPlan(out.val.lex)))
    /\ opc' = "done"
    /\ UNCHANGED <<cmd, llm_mode, resolved_cmd, raisedLog>>
    /\ UNCHANGED evars

\* agent_orchestrator.py:33-46: the plan is no list or an empty one
OrchPlanFallthrough ==
    /\ UNCHANGED xvars
    /\ opc = "plan"
    /\ \E out \in PlannerOutcomes :
          /\ IsText(out)
          /\ Parsed(out).ok
          /\ IF IsList(Parsed(out).val) THEN Parsed(out).val.l = <<>> ELSE TRUE
          /\ events' = Append(events, PlannerCalled(out))
          /\ raw_plan' = out.val
    /\ opc' = "fallback"
    /\ UNCHANGED <<cmd, llm_mode, resolved_cmd, response, raisedLog>>
    /\ UNCHANGED evars

NonEmptyList(out) ==
    /\ IsText(out)
    /\ Parsed(out).ok
    /\ IsList(Parsed(out).val)
    /\ Parsed(out).val.l # <<>>

\* agent_orchestrator.py:47: plan[0] has no get method
OrchPlanBadStep ==
    /\ UNCHANGED xvars
    /\ opc = "plan"
    /\ \E out \in PlannerOutcomes :
          /\ NonEmptyList(out)
          /\ ~IsDict(Parsed(out).val.l[1])
          /\ events' = Append(events, PlannerCalled(out))
          /\ raw_plan' = out.val
          /\ Fail(AttributeError(Parsed(out).val.l[1], A_get))
    /\ UNCHANGED <<cmd, llm_mode, resolved_cmd>>
    /\ UNCHANGED evars

\* agent_orchestrator.py:47-49: the first step names no tool
OrchPlanNoTool ==
    /\ UNCHANGED xvars
    /\ opc = "plan"
    /\ \E out \in PlannerOutcomes :
          /\ NonEmptyList(out)
          /\ IsDict(Parsed(out).val.l[1])
          /\ DictGet(Parsed(out).val.l[1], "tool", NoneV) = NoneV
          /\ events' = Append(events, PlannerCalled(out))
          /\ raw_plan' = out.val
          /\ response' = Response(DictGet(Parsed(out).val.l[1], "response",
                                          StrV(NoResponseMsg)))
    /\ opc' = "done"
    /\ UNCHANGED <<cmd, llm_mode, resolved_cmd, raisedLog>>
    /\ UNCHANGED evars

\* Mutant of OrchPlanExecute: the branch for a first step without tool is
\* missing, such a plan is executed.
OrchPlanExecute_NoElif ==
    /\ UNCHANGED xvars
    /\ opc = "plan"
    /\ \E out \in PlannerOutcomes :
          /\ NonEmptyList(out)
          /\ IsDict(Parsed(out).val.l[1])
          /\ raw_plan' = out.val
          /\ plan' = Parsed(out).val
          /\ events' = events \o <<PlannerCalled(out),
                                   Event("call", "executor", Parsed(out).val, NoneV)>>
    /\ epc' = "idle"
    /\ opc' = "execute"
    /\ UNCHANGED <<cmd, llm_mode, resolved_cmd, response, raisedLog>>
    /\ UNCHANGED <<idx, results_cache, last_result, inflight, exec_ret,
                   substLog, callLog, outLog, resultPos>>

\* agent_orchestrator.py:50-52: the plan is handed to executor.execute
OrchPlanExecute ==
    /\ UNCHANGED xvars
    /\ opc = "plan"
    /\ \E out \in PlannerOutcomes :
          /\ NonEmptyList(out)
          /\ IsDict(Parsed(out).val.l[1])
          /\ DictGet(Parsed(out).val.l[1], "tool", NoneV) # NoneV
          /\ raw_plan' = out.val
          /\ plan' = Parsed(out).val
          /\ events' = events \o <<PlannerCalled(out),
                                   Event("call", "executor", Parsed(out).val, NoneV)>>
    /\ epc' = "idle"
    /\ opc' = "execute"
    /\ UNCHANGED <<cmd, llm_mode, resolved_cmd, response, raisedLog>>
    /\ UNCHANGED <<idx, results_cache, last_result, inflight, exec_ret,
                   substLog, callLog, outLog, resultPos>>

\* summarizer.py:21
ValidResults(results) == SelectSeq(results, LAMBDA r : ~StartsWith(r, StartsErrExec))

StrList(results) == ListV([i \in 1..Len(results) |-> StrV(results[i])])

SummarizerCalled == Event("call", "summarizer", StrList(exec_ret), NoneV)

\* agent_orchestrator.py:56-61 with summarizer.py:21-24: nothing is left
\* after the error results are filtered out
OrchSummarizeNoResults ==
    /\ UNCHANGED xvars
    /\ opc = "execute"
    /\ epc = "returned"
    /\ ValidResults(exec_ret) = <<>>
    /\ events' = Append(events, SummarizerCalled)
    /\ response' = ResponseWithMode(StrV(NoResultsMsg))
    /\ opc' = "done"
    /\ UNCHANGED <<cmd, llm_mode, resolved_cmd, raw_plan, raisedLog>>
    /\ UNCHANGED evars

\* Mutant of OrchSummarize: the report is not returned, execute_query goes
\* on to the direct model call.
OrchSummarize_NoReturn ==
    /\ UNCHANGED xvars
    /\ opc = "execute"
    /\ epc = "returned"
    /\ ValidResults(exec_ret) # <<>>
    /\ \E out \in ChatOutcomes({S_report}) :
        /\ events' = events \o
               <<SummarizerCalled,
                 Event("chat", "summarizer", StrList(ValidResults(exec_ret)), out)>>
        /\ IF out.ok
           THEN /\ opc' = "fallback"
                /\ UNCHANGED <<response, raisedLog>>
           ELSE Fail(out)
    /\ UNCHANGED <<cmd, llm_mode, resolved_cmd, raw_plan>>
    /\ UNCHANGED evars

\* agent_orchestrator.py:56-61 with summarizer.py:26-55: one model call
OrchSummarize ==
    /\ UNCHANGED xvars
    /\ opc = "execute"
    /\ epc = "returned"
    /\ ValidResults(exec_ret) # <<>>
    /\ \E out \in ChatOutcomes({S_report}) :
        /\ events' = events \o
               <<SummarizerCalled,
                 Event("chat", "summarizer", StrList(ValidResults(exec_ret)), out)>>
        /\ IF out.ok
           THEN /\ response' = ResponseWithMode(out.val)
                /\ opc' = "done"
                /\ UNCHANGED raisedLog
           ELSE Fail(out)
    /\ UNCHANGED <<cmd, llm_mode, resolved_cmd, raw_plan>>
    /\ UNCHANGED evars

\* Mutant of OrchDirect: the rewritten query is sent, not the user's text.
OrchDirect_Resolved ==
    /\ UNCHANGED xvars
    /\ opc = "fallback"
    /\ \E out \in ChatOutcomes({S_sure}) :
        /\ events' = Append(events, Event("chat", "direct", StrV(resolved_cmd), out))
        /\ IF out.ok
           THEN /\ response' = ResponseWithMode(out.val)
                /\ opc' = "done"
                /\ UNCHANGED raisedLog
           ELSE Fail(out)
    /\ UNCHANGED <<cmd, llm_mode, resolved_cmd, raw_plan>>
    /\ UNCHANGED evars

\* agent_orchestrator.py:63-69: the direct model call
OrchDirect ==
    /\ UNCHANGED xvars
    /\ opc = "fallback"
    /\ \E out \in ChatOutcomes({S_sure}) :
        /\ events' = Append(events, Event("chat", "direct", StrV(cmd), out))
        /\ IF out.ok
           THEN /\ response' = ResponseWithMode(out.val)
                /\ opc' = "done"
                /\ UNCHANGED raisedLog
           ELSE Fail(out)
    /\ UNCHANGED <<cmd, llm_mode, resolved_cmd, raw_plan>>
    /\ UNCHANGED evars

\* ------------------------------------------------------ validate: the text
\* validator.py:41, the keys of the schema check, and texts it is tried on
K_tool == <<"t","o","o","l">>
K_args == <<"a","r","g","s">>
S_toolargs == <<"t","o","o","l"," ","a","r","g","s">>
S_notjson == <<"n","o","t"," ","j","s","o","n"," ","a","t"," ","a","l","l">>
S_seex == <<"s","e","e"," ","[","x","]"," ","o","r"," ","[","y","]">>
S_notiter == <<"a","r","g","u","m","e","n","t"," ","o","f"," ","t","y","p","e"," ","'","i","n","t","'"," ","i","s"," ","n","o","t"," ","i","t","e","r","a","b","l","e">>
S_notiterNone == <<"a","r","g","u","m","e","n","t"," ","o","f"," ","t","y","p","e"," ","'","N","o","n","e","T","y","p","e","'"," ","i","s"," ","n","o","t"," ","i","t","e","r","a","b","l","e">>
S_expstr == <<"e","x","p","e","c","t","e","d"," ","s","t","r","i","n","g"," ","o","r"," ","b","y","t","e","s","-","l","i","k","e"," ","o","b","j","e","c","t">>

\* The characters of a text, as far as the regular expression and the JSON
\* decoder tell them apart: brackets, braces, colon, comma, a string, a
\* number, null, white space, a fence, any other character.
LB == [k |-> "lb"]
RB == [k |-> "rb"]
LC == [k |-> "lc"]
RC == [k |-> "rc"]
ColonTok == [k |-> "colon"]
CommaTok == [k |-> "comma"]
NullTok == [k |-> "null"]
WsTok == [k |-> "ws"]
FenceTok == [k |-> "fence"]
KeyTok(name) == [k |-> "key", name |-> name]
StrTok(s) == [k |-> "str", s |-> s]
IntTok(n) == [k |-> "int", n |-> n]
CharTok(c) == [k |-> "ch", c |-> c]

RECURSIVE SetToSeq(_)
SetToSeq(S) ==
    IF S = {} THEN <<>>
    ELSE LET x == CHOOSE y \in S : TRUE IN <<x>> \o SetToSeq(S \ {x})

\* The text of a JSON document, as the model writes it.
RECURSIVE Dumps(_)
RECURSIVE DumpsElems(_, _)
RECURSIVE DumpsMembers(_, _)
DumpsElems(l, i) ==
    IF i > Len(l) THEN <<>>
    ELSE (IF i > 1 THEN <<CommaTok, WsTok>> ELSE <<>>)
             \o Dumps(l[i]) \o DumpsElems(l, i + 1)

DumpsMembers(d, keys) ==
    IF keys = <<>> THEN <<>>
    ELSE <<KeyTok(Head(keys)), ColonTok, WsTok>> \o Dumps(d[Head(keys)])
             \o (IF Len(keys) > 1 THEN <<CommaTok, WsTok>> ELSE <<>>)
             \o DumpsMembers(d, Tail(keys))

Dumps(v) ==
    CASE v.t = "str" -> <<StrTok(v.s)>>
      [] v.t = "int" -> <<IntTok(v.n)>>
      [] v.t = "none" -> <<NullTok>>
      [] v.t = "list" -> <<LB>> \o DumpsElems(v.l, 1) \o <<RB>>
      [] v.t = "dict" -> <<LC>> \o DumpsMembers(v.d, SetToSeq(DOMAIN v.d)) \o <<RC>>

\* The characters of a run of prose.
WordToks(s) ==
    [i \in 1..Len(s) |->
        IF s[i] = "[" THEN LB ELSE IF s[i] = "]" THEN RB ELSE CharTok(s[i])]

LexToks(x) ==
    CASE x.lx = "json" -> Dumps(x.doc)
      [] x.lx = "word" -> WordToks(x.s)
      [] x.lx = "ws" -> <<WsTok>>
      [] x.lx = "fence" -> <<FenceTok>>
      [] x.lx = "fence_json" -> <<FenceTok>>

RECURSIVE Toks(_)
Toks(lex) == IF lex = <<>> THEN <<>> ELSE LexToks(Head(lex)) \o Toks(Tail(lex))

\* json.loads of a text: the decoder
NoParse == [ok |-> FALSE]
ParseOk(v, next) == [ok |-> TRUE, val |-> v, next |-> next]

RECURSIVE SkipWs(_, _)
SkipWs(toks, i) ==
    IF i <= Len(toks) /\ toks[i].k = "ws" THEN SkipWs(toks, i + 1) ELSE i

KindAt(toks, i) == IF i <= Len(toks) THEN toks[i].k ELSE "eof"

RECURSIVE ParseValue(_, _)
RECURSIVE ParseElems(_, _, _)
RECURSIVE ParseMembers(_, _, _)
\* the elements of an array after "[" or ",": a value, then "," or "]"
ParseElems(toks, i, acc) ==
    LET r == ParseValue(toks, i)
    IN IF ~r.ok THEN NoParse
       ELSE LET j == SkipWs(toks, r.next)
            IN CASE KindAt(toks, j) = "comma" ->
                        ParseElems(toks, j + 1, Append(acc, r.val))
                 [] KindAt(toks, j) = "rb" -> ParseOk(ListV(Append(acc, r.val)), j + 1)
                 [] OTHER -> NoParse

\* the members of an object after "{" or ",": key ":" value, then "," or "}"
ParseMembers(toks, i, acc) ==
    LET j == SkipWs(toks, i)
        c == SkipWs(toks, j + 1)
    IN IF KindAt(toks, j) # "key" \/ KindAt(toks, c) # "colon" THEN NoParse
       ELSE LET r == ParseValue(toks, c + 1)
            IN IF ~r.ok THEN NoParse
               ELSE LET key == toks[j].name
                        d == [x \in DOMAIN acc \cup {key} |->
                                 IF x = key THEN r.val ELSE acc[x]]
                        n == SkipWs(toks, r.next)
                    IN CASE KindAt(toks, n) = "comma" -> ParseMembers(toks, n + 1, d)
                         [] KindAt(toks, n) = "rc" -> ParseOk(DictV(d), n + 1)
                         [] OTHER -> NoParse

ParseValue(toks, i) ==
    LET j == SkipWs(toks, i)
        k == KindAt(toks, j)
    IN CASE k = "str" -> ParseOk(StrV(toks[j].s), j + 1)
         [] k = "int" -> ParseOk(IntV(toks[j].n), j + 1)
         [] k = "null" -> ParseOk(NoneV, j + 1)
         [] k = "lb" ->
               IF KindAt(toks, SkipWs(toks, j + 1)) = "rb"
               THEN ParseOk(ListV(<<>>), SkipWs(toks, j + 1) + 1)
               ELSE ParseElems(toks, j + 1, <<>>)
         [] k = "lc" ->
               IF KindAt(toks, SkipWs(toks, j + 1)) = "rc"
               THEN ParseOk(DictV(EmptyDict), SkipWs(toks, j + 1) + 1)
               ELSE ParseMembers(toks, j + 1, EmptyDict)
         [] OTHER -> NoParse

\* json.loads(s): one value and nothing after it, else JSONDecodeError
JsonLoadsToks(toks) ==
    LET r == ParseValue(toks, 1)
    IN IF r.ok /\ SkipWs(toks, r.next) > Len(toks)
       THEN Returned(r.val)
       ELSE Raised("JSONDecodeError", <<>>)

\* validator.py:24: re.search(r'\[.*\]', text, re.DOTALL), the characters
\* from the first "[" to the last "]" after it, or no match (<<>>)
ArrayMatch(toks) ==
    LET lbs == {i \in DOMAIN toks : toks[i].k = "lb"}
    IN IF lbs = {} THEN <<>>
       ELSE LET first == CHOOSE i \in lbs : \A j \in lbs : i <= j
                rbs == {i \in DOMAIN toks : toks[i].k = "rb" /\ i > first}
            IN IF rbs = {} THEN <<>>
               ELSE SubSeq(toks, first, CHOOSE i \in rbs : \A j \in rbs : j <= i)

\* Mutant of CatchDecodeError: the JSONDecodeError is not caught.
CatchDecodeError_Reraise(r) == r

\* validator.py:28-29: except json.JSONDecodeError: return []
CatchDecodeError(r) == IF r.ok THEN r ELSE Returned(ListV(<<>>))

\* Mutant of ExtractJson: the search is not greedy, the match ends at the
\* first "]".
ExtractJson_NonGreedy(text) ==
    IF text.t # "text" THEN Raised("TypeError", S_expstr)
    ELSE LET toks == Toks(text.lex)
             lbs == {i \in DOMAIN toks : toks[i].k = "lb"}
             first == CHOOSE i \in lbs : \A j \in lbs : i <= j
             rbs == {i \in DOMAIN toks : toks[i].k = "rb" /\ i > first}
         IN IF lbs = {} THEN Returned(ListV(<<>>))
            ELSE IF rbs = {} THEN Returned(ListV(<<>>))
            ELSE CatchDecodeError(JsonLoadsToks(SubSeq(toks, first,
                     CHOOSE i \in rbs : \A j \in rbs : i <= j)))

\* validator.py:20-29 _extract_json: the array found in the text, [] when
\* there is none or it does not decode; a text that is no string makes
\* re.search raise TypeError, which the except clause does not name
ExtractJson(text) ==
    IF text.t # "text" THEN Raised("TypeError", S_expstr)
    ELSE LET m == ArrayMatch(Toks(text.lex))
         IN IF m = <<>> THEN Returned(ListV(<<>>))
            ELSE CatchDecodeError(JsonLoadsToks(m))

\* ------------------------------------------------------------- validate
\* validator.py:41: key in step, for the kinds of value a JSON array holds:
\* a key of a mapping, a substring of a string, an element of a list; a
\* number or null is not iterable
Iterable(step) == step.t \in {"dict", "str", "list"}

KeyIn(name, chars, step) ==
    CASE step.t = "dict" -> name \in DOMAIN step.d
      [] step.t = "str" -> Contains(step.s, chars)
      [] step.t = "list" -> \E i \in DOMAIN step.l : step.l[i] = StrV(chars)

NotIterable(step) ==
    Raised("TypeError", IF step.t = "int" THEN S_notiter ELSE S_notiterNone)

\* validator.py:41: all('tool' in step and 'args' in step for step in ...),
\* from element i on
RECURSIVE SchemaCheck(_, _)
SchemaCheck(l, i) ==
    IF i > Len(l) THEN Returned(TRUE)
    ELSE IF ~Iterable(l[i]) THEN NotIterable(l[i])
    ELSE IF ~KeyIn("tool", K_tool, l[i]) THEN Returned(FALSE)
    ELSE IF ~KeyIn("args", K_args, l[i]) THEN Returned(FALSE)
    ELSE SchemaCheck(l, i + 1)

\* validator.py:38-42, the fast path: it returns the parsed list, raises,
\* or yields nothing ("slow")
FastPath(raw) ==
    LET params_fast == ExtractJson(raw)
    IN IF ~params_fast.ok THEN [kind |-> "raise", exc |-> params_fast]
       ELSE IF params_fast.val.l = <<>> THEN [kind |-> "slow"]
       ELSE LET sc == SchemaCheck(params_fast.val.l, 1)
            IN IF ~sc.ok THEN [kind |-> "raise", exc |-> sc]
               ELSE IF sc.val THEN [kind |-> "return", val |-> params_fast.val]
               ELSE [kind |-> "slow"]

\* ------------------------------------------------------- bounded inputs
GoodStep == Step(StrV(T_echo), MsgArgs(StrV(S_X)))
NoArgsStep == DictV([tool |-> StrV(T_echo)])

\* Elements of an array the planner can write: well-formed steps (one with
\* an array among its arguments), a no-tool step, and elements that are no
\* mapping.
ValSteps ==
    { GoodStep,
      Step(StrV(T_aecho), MsgArgs(ListV(<<IntV(1), StrV(TOKEN)>>))),
      Step(NoneV, DictV(EmptyDict)),
      DictV([tool |-> NoneV, response |-> StrV(S_42)]),
      StrV(S_toolargs),
      ListV(<<StrV(K_tool), StrV(K_args)>>),
      IntV(1) }

ValDocs == {ListV(q) : q \in SeqsUpTo(ValSteps, MaxValPlanLen)}

\* Arguments of validate: an array alone, inside a fence, after prose;
\* a mapping; prose with and without brackets; the empty text; None.
ValRawPlans ==
    {TextV(<<Json(d)>>) : d \in ValDocs}
        \cup {TextV(<<FenceJson, Ws, Json(d), Ws, Fence>>) : d \in ValDocs}
        \cup {TextV(<<Word(S_sure), Ws, Json(ListV(<<GoodStep>>))>>),
              TextV(<<Word(S_seex), Ws, Json(ListV(<<GoodStep>>))>>),
              TextV(<<Json(Step(StrV(T_echo), MsgArgs(ListV(<<IntV(1)>>))))>>),
              TextV(<<Json(DictV([tool |-> NoneV, response |-> StrV(S_42)]))>>),
              TextV(<<Word(S_notjson)>>),
              TextV(<<Word(S_seex)>>),
              TextV(<<>>),
              NoneV}

\* What the model can answer to the repair request: a well-formed array,
\* bare or fenced; an array whose step lacks args; an empty array; prose
\* with and without brackets; no text; or the call raises.
RepairOutcomes ==
    {Returned(r) : r \in
        {TextV(<<Json(ListV(<<GoodStep>>))>>),
         TextV(<<FenceJson, Ws, Json(ListV(<<GoodStep, GoodStep>>)), Ws, Fence>>),
         TextV(<<Json(ListV(<<NoArgsStep>>))>>),
         TextV(<<Json(ListV(<<>>))>>),
         TextV(<<Word(S_notjson)>>),
         TextV(<<Word(S_seex)>>),
         NoneV}}
        \cup {Raised("Exception", S_backend)}

\* ------------------------------------------------------ validate: actions
\* validator.py:38-42: the fast path accepts the parsed list
ValFast ==
    /\ vpc = "start"
    /\ FastPath(vraw).kind = "return"
    /\ vret' = FastPath(vraw).val
    /\ vpc' = "done"
    /\ UNCHANGED <<vraw, vevents, vexc>>
    /\ UNCHANGED <<ovars, evars, lvars, cvars, yvars>>

\* validator.py:38-41: re.search or the schema check raises TypeError
ValFastRaises ==
    /\ vpc = "start"
    /\ FastPath(vraw).kind = "raise"
    /\ vexc' = FastPath(vraw).exc
    /\ vpc' = "raised"
    /\ UNCHANGED <<vraw, vret, vevents>>
    /\ UNCHANGED <<ovars, evars, lvars, cvars, yvars>>

\* validator.py:44-52, the slow path: one model call at temperature 0 with
\* the raw plan as the user message, and the array extracted from the reply
ValSlow ==
    /\ vpc = "start"
    /\ FastPath(vraw).kind = "slow"
    /\ \E out \in RepairOutcomes :
          /\ vevents' = Append(vevents,
                 Event("chat", "validator", vraw, out) @@ [temperature |-> 0])
          /\ LET res == IF out.ok THEN ExtractJson(out.val) ELSE out
             IN IF res.ok
                THEN vret' = res.val /\ vpc' = "done" /\ UNCHANGED vexc
                ELSE vexc' = res /\ vpc' = "raised" /\ UNCHANGED vret
    /\ UNCHANGED vraw
    /\ UNCHANGED <<ovars, evars, lvars, cvars, yvars>>

\* No validate is running.
ValOff ==
    /\ vraw = NoneV
    /\ vpc = "off"
    /\ vret = NoneV
    /\ vevents = <<>>
    /\ vexc = NoneV

\* ------------------------------------------------------------- LLMClient
\* llm_client.py:88, the default of retries
RETRIES == 3
\* llm_client.py:118, the factor of the wait
BASE_WAIT == 45

\* Error texts of the remote backend, and the reply of a backend
S_429 == <<"4","2","9"," ","R","E","S","O","U","R","C","E","_","E","X","H","A","U","S","T","E","D">>
S_Quota == <<"Q","u","o","t","a"," ","e","x","c","e","e","d","e","d"," ","f","o","r"," ","t","h","i","s"," ","m","o","d","e","l">>
S_refused == <<"C","o","n","n","e","c","t","i","o","n"," ","r","e","f","u","s","e","d">>
S_reply == <<"o","k">>
L_429 == <<"4","2","9">>
L_quota == <<"q","u","o","t","a">>

UpperCase == <<"A","B","C","D","E","F","G","H","I","J","K","L","M","N","O","P","Q","R","S","T","U","V","W","X","Y","Z">>
LowerCase == <<"a","b","c","d","e","f","g","h","i","j","k","l","m","n","o","p","q","r","s","t","u","v","w","x","y","z">>

\* str.lower()
Lower(s) ==
    [i \in 1..Len(s) |->
        IF \E j \in 1..26 : UpperCase[j] = s[i]
        THEN LowerCase[CHOOSE j \in 1..26 : UpperCase[j] = s[i]]
        ELSE s[i]]

\* Mutant of IsRateLimit: the text is not lowered before the search.
IsRateLimit_CaseSensitive(error_msg) ==
    Contains(error_msg, L_429) \/ Contains(error_msg, L_quota)

\* llm_client.py:117
IsRateLimit(error_msg) ==
    Contains(error_msg, L_429) \/ Contains(Lower(error_msg), L_quota)

\* llm_client.py:118, attempt counted from 0
WaitTime(attempt) == BASE_WAIT * (attempt + 1)

BoolV(b) == [t |-> "bool", b |-> b]

AllThreads == {"api", "console"}

\* Mutant of CacheHit: the cached availability is never used.
CacheHit_Never == FALSE

\* llm_client.py:35
CacheHit == local_available # NoneV

\* requests.get(...): status 200, another status, or an exception
\* (llm_client.py:38-42)
ProbeOutcomes == {"200", "503", "exception"}

\* client.chat.completions.create of the local backend (llm_client.py:81-86)
LocalOutcomes == {Returned(StrV(S_reply)), Raised("Exception", S_refused)}

\* client.models.generate_content of the remote backend
\* (llm_client.py:106-114): a text, no text, a rate-limit error, another
\* error
GeminiOutcomes ==
    {Returned(StrV(S_reply)), Returned(NoneV),
     Raised("Exception", S_429), Raised("Exception", S_Quota),
     Raised("Exception", S_refused)}

NoCall == [op |-> "none"]

\* a call in progress: chat or mode, the backend chosen, the probe it sent
\* (its place in probeLog, 0 for none), the value of the loop variable
\* attempt, the attempts made on the remote backend and the waits after them
NewCall(op) ==
    [op |-> op, backend |-> <<>>, probe |-> 0, attempt |-> 0, tries |-> <<>>,
     waits |-> <<>>]

\* the call of thread t ends with outcome out
Finish(t, call, out) ==
    /\ chatLog' = Append(chatLog,
           [thread |-> t, op |-> call.op, backend |-> call.backend,
            probe |-> call.probe, tries |-> call.tries, waits |-> call.waits, out |-> out])
    /\ lcur' = [lcur EXCEPT ![t] = NoCall]
    /\ lpc' = [lpc EXCEPT ![t] = "idle"]

\* llm_client.py:60, 126: a thread calls chat or reads mode
ClientStart(t) ==
    /\ t \in threads
    /\ lpc[t] = "idle"
    /\ started < MaxCalls
    /\ started' = started + 1
    /\ \E op \in {"chat", "mode"} : lcur' = [lcur EXCEPT ![t] = NewCall(op)]
    /\ lpc' = [lpc EXCEPT ![t] = "select"]
    /\ UNCHANGED <<threads, prefer_local, local_available, probeLog, chatLog>>
    /\ UNCHANGED <<ovars, evars, vvars, cvars, yvars>>

\* the backend is decided: mode returns its name, chat goes on to call it
Selected(t, local) ==
    LET call == [lcur[t] EXCEPT !.backend = IF local THEN M_local ELSE M_gemini]
    IN IF call.op = "mode"
       THEN Finish(t, call, Returned(StrV(call.backend)))
       ELSE /\ lcur' = [lcur EXCEPT ![t] = call]
            /\ lpc' = [lpc EXCEPT ![t] = IF local THEN "local" ELSE "gemini"]
            /\ UNCHANGED chatLog

\* llm_client.py:72, 129: prefer_local is false, _check_local is not called
SelectRemote(t) ==
    /\ lpc[t] = "select"
    /\ ~prefer_local
    /\ Selected(t, FALSE)
    /\ UNCHANGED <<threads, prefer_local, local_available, started, probeLog>>
    /\ UNCHANGED <<ovars, evars, vvars, cvars, yvars>>

\* llm_client.py:35: _check_local finds the availability cached
CheckLocalCached(t) ==
    /\ lpc[t] = "select"
    /\ prefer_local
    /\ CacheHit
    /\ lpc' = [lpc EXCEPT ![t] = "ret"]
    /\ UNCHANGED <<threads, prefer_local, local_available, lcur, started,
                   probeLog, chatLog>>
    /\ UNCHANGED <<ovars, evars, vvars, cvars, yvars>>

\* llm_client.py:35-39: nothing is cached, the probe is sent
CheckLocalProbe(t) ==
    /\ lpc[t] = "select"
    /\ prefer_local
    /\ ~CacheHit
    /\ probeLog' = Append(probeLog, [by |-> t, result |-> NoneV])
    /\ lcur' = [lcur EXCEPT ![t] =
                   [lcur[t] EXCEPT !.probe = Len(probeLog) + 1]]
    /\ lpc' = [lpc EXCEPT ![t] = "probing"]
    /\ UNCHANGED <<threads, prefer_local, local_available, started, chatLog>>
    /\ UNCHANGED <<ovars, evars, vvars, cvars, yvars>>

\* llm_client.py:39-42: the probe ends and its result is stored
ProbeDone(t) ==
    /\ lpc[t] = "probing"
    /\ \E status \in ProbeOutcomes :
          /\ local_available' = BoolV(status = "200")
          /\ probeLog' = [probeLog EXCEPT ![lcur[t].probe].result =
                              BoolV(status = "200")]
    /\ lpc' = [lpc EXCEPT ![t] = "ret"]
    /\ UNCHANGED <<threads, prefer_local, lcur, started, chatLog>>
    /\ UNCHANGED <<ovars, evars, vvars, cvars, yvars>>

\* llm_client.py:36, 44: _check_local returns self._local_available, and
\* chat or mode chooses the backend by it (llm_client.py:72-76, 129-131)
CheckLocalReturn(t) ==
    /\ lpc[t] = "ret"
    /\ Selected(t, local_available.b)
    /\ UNCHANGED <<threads, prefer_local, local_available, started, probeLog>>
    /\ UNCHANGED <<ovars, evars, vvars, cvars, yvars>>

\* Mutant of ChatLocal: when the local backend fails, the call goes on to
\* the remote backend.
ChatLocal_Fallback(t) ==
    /\ lpc[t] = "local"
    /\ \E out \in LocalOutcomes :
          IF out.ok THEN Finish(t, lcur[t], out)
          ELSE /\ lpc' = [lpc EXCEPT ![t] = "gemini"]
               /\ UNCHANGED <<lcur, chatLog>>
    /\ UNCHANGED <<threads, prefer_local, local_available, started, probeLog>>
    /\ UNCHANGED <<ovars, evars, vvars, cvars, yvars>>

\* llm_client.py:78-86 _chat_local: one call, its result or its exception
ChatLocal(t) ==
    /\ lpc[t] = "local"
    /\ \E out \in LocalOutcomes : Finish(t, lcur[t], out)
    /\ UNCHANGED <<threads, prefer_local, local_available, started, probeLog>>
    /\ UNCHANGED <<ovars, evars, vvars, cvars, yvars>>

\* llm_client.py:104-122: one attempt of _chat_gemini.  A text is returned
\* at once; a rate-limit error starts a wait; any other error is re-raised
GeminiAttempt(t) ==
    /\ lpc[t] = "gemini"
    /\ lcur[t].attempt < RETRIES
    /\ \E out \in GeminiOutcomes :
          LET call == [lcur[t] EXCEPT !.tries = Append(@, out)]
          IN IF out.ok THEN Finish(t, call, out)
             ELSE IF IsRateLimit(out.msg)
             THEN /\ lcur' = [lcur EXCEPT ![t] =
                         [call EXCEPT !.waits = Append(@, WaitTime(call.attempt))]]
                  /\ lpc' = [lpc EXCEPT ![t] = "sleep"]
                  /\ UNCHANGED chatLog
             ELSE Finish(t, call, out)
    /\ UNCHANGED <<threads, prefer_local, local_available, started, probeLog>>
    /\ UNCHANGED <<ovars, evars, vvars, cvars, yvars>>

\* Mutant of GeminiWake: the loop variable does not advance.
GeminiWake_NoCount(t) ==
    /\ lpc[t] = "sleep"
    /\ lpc' = [lpc EXCEPT ![t] = "gemini"]
    /\ UNCHANGED <<threads, prefer_local, local_available, lcur, started,
                   probeLog, chatLog>>
    /\ UNCHANGED <<ovars, evars, vvars, cvars, yvars>>

\* llm_client.py:120, 104: time.sleep returns and the loop goes on
GeminiWake(t) ==
    /\ lpc[t] = "sleep"
    /\ lcur' = [lcur EXCEPT ![t] = [lcur[t] EXCEPT !.attempt = @ + 1]]
    /\ lpc' = [lpc EXCEPT ![t] = "gemini"]
    /\ UNCHANGED <<threads, prefer_local, local_available, started, probeLog,
                   chatLog>>
    /\ UNCHANGED <<ovars, evars, vvars, cvars, yvars>>

\* llm_client.py:124: the loop is over
GeminiGiveUp(t) ==
    /\ lpc[t] = "gemini"
    /\ lcur[t].attempt >= RETRIES
    /\ Finish(t, lcur[t], Raised("Exception", S_backend))
    /\ UNCHANGED <<threads, prefer_local, local_available, started, probeLog>>
    /\ UNCHANGED <<ovars, evars, vvars, cvars, yvars>>

\* No client is in use.
ClientOff ==
    /\ threads = {}
    /\ prefer_local = TRUE
    /\ local_available = NoneV
    /\ lpc = [t \in AllThreads |-> "idle"]
    /\ lcur = [t \in AllThreads |-> NoCall]
    /\ started = 0
    /\ probeLog = <<>>
    /\ chatLog = <<>>

\* ------------------------------------- execute, called by several callers
\* backend/main.py:45, 66: one ToolExecutor serves every execute_query.  Two
\* invocations of execute are in progress, either as two requests on the
\* event loop of the API thread (main.py:155-175), where one gives way to the
\* other only while it awaits a coroutine handler, or one on the API thread
\* and one on the console thread (main.py:183-207), where they interleave
\* freely.  self.results_cache refers to a list object; heap holds the list
\* objects, cache is the one self.results_cache refers to.
Invs == {"p", "q"}

ConcSteps ==
    { Step(StrV(T_echo), MsgArgs(StrV(S_X))),
      Step(StrV(T_aecho), MsgArgs(StrV(TOKEN \o S_dashY))),
      Step(StrV(T_nope), MsgArgs(StrV(S_X))),
      StrV(S_X) }

ConcPlanInputs == {ListV(q) : q \in SeqsUpTo(ConcSteps, MaxConcPlanLen)}

\* the invocation holds the thread of control
Holds(p) == threaded \/ running = p
\* the invocation is given the event loop when no other holds it
Take(p) == IF threaded THEN UNCHANGED running ELSE running = "none" /\ running' = p
\* the invocation gives the event loop away
Release == running' = IF threaded THEN running ELSE "none"

ConcStep(p) == cplan[p].l[cidx[p]]

\* self.results_cache.append(text), executor.py:62, 72, 76
CacheAppend(p, text) ==
    /\ heap' = [heap EXCEPT ![cache] = Append(@, text)]
    /\ cmine' = [cmine EXCEPT ![p] = Append(@, text)]

\* executor.py:72-77: the result text of a handler call
ResultText(tool_name, out) ==
    IF out.ok THEN Str(out.val) ELSE ErrExecMsg(tool_name, out.msg)

\* executor.py:72-77: the carry after a handler call
ResultCarry(tool_name, out) ==
    IF out.ok THEN out.val ELSE StrV(ErrExecMsg(tool_name, out.msg))

\* executor.py:30-37: self.results_cache = [], a new list object
ConcEnter(p) ==
    /\ cpc[p] = "idle"
    /\ Take(p)
    /\ heap' = Append(heap, <<>>)
    /\ cache' = Len(heap) + 1
    /\ clast' = [clast EXCEPT ![p] = StrV(<<>>)]
    /\ cidx' = [cidx EXCEPT ![p] = 1]
    /\ cpc' = [cpc EXCEPT ![p] = "loop"]
    /\ UNCHANGED <<threaded, cplan, cret, cmine>>
    /\ UNCHANGED <<ovars, evars, vvars, lvars, yvars>>

\* executor.py:39-46
ConcSkipStep(p) ==
    /\ cpc[p] = "loop"
    /\ Holds(p)
    /\ cidx[p] <= Len(cplan[p].l)
    /\ Skipped(ConcStep(p))
    /\ cidx' = [cidx EXCEPT ![p] = @ + 1]
    /\ UNCHANGED <<threaded, running, cplan, cpc, clast, cret, heap, cache, cmine>>
    /\ UNCHANGED <<ovars, evars, vvars, lvars, yvars>>

\* executor.py:59-64
ConcToolNotFound(p) ==
    /\ cpc[p] = "loop"
    /\ Holds(p)
    /\ cidx[p] <= Len(cplan[p].l)
    /\ ~Skipped(ConcStep(p))
    /\ FindTool(ToolOf(ConcStep(p))) = NoneV
    /\ CacheAppend(p, NotFoundMsg(ToolOf(ConcStep(p))))
    /\ clast' = [clast EXCEPT ![p] = StrV(NotFoundMsg(ToolOf(ConcStep(p))))]
    /\ cidx' = [cidx EXCEPT ![p] = @ + 1]
    /\ UNCHANGED <<threaded, running, cplan, cpc, cret, cache>>
    /\ UNCHANGED <<ovars, evars, vvars, lvars, yvars>>

\* executor.py:66-77: a plain method
ConcCallSync(p) ==
    /\ cpc[p] = "loop"
    /\ Holds(p)
    /\ cidx[p] <= Len(cplan[p].l)
    /\ ~Skipped(ConcStep(p))
    /\ FindTool(ToolOf(ConcStep(p))) # NoneV
    /\ ~IsCoroutine(FindTool(ToolOf(ConcStep(p))).s)
    /\ \E out \in CallOutcomes(FindTool(ToolOf(ConcStep(p))).s,
                               ProcessedArgs(ArgsOf(ConcStep(p)), clast[p])) :
          /\ IF out.ok THEN TRUE ELSE ExecCatches(out.kind)
          /\ CacheAppend(p, ResultText(ToolOf(ConcStep(p)), out))
          /\ clast' = [clast EXCEPT ![p] = ResultCarry(ToolOf(ConcStep(p)), out)]
    /\ cidx' = [cidx EXCEPT ![p] = @ + 1]
    /\ UNCHANGED <<threaded, running, cplan, cpc, cret, cache>>
    /\ UNCHANGED <<ovars, evars, vvars, lvars, yvars>>

\* executor.py:67-68: a coroutine method is awaited; on the event loop the
\* other invocation may run now
ConcCallAsync(p) ==
    /\ cpc[p] = "loop"
    /\ Holds(p)
    /\ cidx[p] <= Len(cplan[p].l)
    /\ ~Skipped(ConcStep(p))
    /\ FindTool(ToolOf(ConcStep(p))) # NoneV
    /\ IsCoroutine(FindTool(ToolOf(ConcStep(p))).s)
    /\ cpc' = [cpc EXCEPT ![p] = "await"]
    /\ Release
    /\ UNCHANGED <<threaded, cplan, cidx, clast, cret, heap, cache, cmine>>
    /\ UNCHANGED <<ovars, evars, vvars, lvars, yvars>>

\* executor.py:68, 72-77: the awaited coroutine ends and execute goes on
ConcResumeAsync(p) ==
    /\ cpc[p] = "await"
    /\ Take(p)
    /\ \E out \in CallOutcomes(FindTool(ToolOf(ConcStep(p))).s,
                               ProcessedArgs(ArgsOf(ConcStep(p)), clast[p])) :
          /\ IF out.ok THEN TRUE ELSE ExecCatches(out.kind)
          /\ CacheAppend(p, ResultText(ToolOf(ConcStep(p)), out))
          /\ clast' = [clast EXCEPT ![p] = ResultCarry(ToolOf(ConcStep(p)), out)]
    /\ cidx' = [cidx EXCEPT ![p] = @ + 1]
    /\ cpc' = [cpc EXCEPT ![p] = "loop"]
    /\ UNCHANGED <<threaded, cplan, cret, cache>>
    /\ UNCHANGED <<ovars, evars, vvars, lvars, yvars>>

\* executor.py:79: return self.results_cache, the list object it refers to
\* now
ConcReturn(p) ==
    /\ cpc[p] = "loop"
    /\ Holds(p)
    /\ cidx[p] > Len(cplan[p].l)
    /\ cret' = [cret EXCEPT ![p] = cache]
    /\ cpc' = [cpc EXCEPT ![p] = "returned"]
    /\ Release
    /\ UNCHANGED <<threaded, cplan, cidx, clast, heap, cache, cmine>>
    /\ UNCHANGED <<ovars, evars, vvars, lvars, yvars>>

\* No execute shares the executor with another.
ConcOff ==
    /\ threaded = FALSE
    /\ running = "none"
    /\ cplan = [p \in Invs |-> NoneV]
    /\ cpc = [p \in Invs |-> "off"]
    /\ cidx = [p \in Invs |-> 0]
    /\ clast = [p \in Invs |-> StrV(<<>>)]
    /\ cret = [p \in Invs |-> 0]
    /\ heap = <<>>
    /\ cache = 0
    /\ cmine = [p \in Invs |-> <<>>]

\* ------------------------------------------------- the registered tools
\* method names of the provider stubs
F_init == <<"_","_","i","n","i","t","_","_">>
F_validate_path == <<"_","v","a","l","i","d","a","t","e","_","p","a","t","h">>
F_read_file == <<"r","e","a","d","_","f","i","l","e">>
F_clean_text == <<"c","l","e","a","n","_","t","e","x","t">>
F_summarize_text == <<"s","u","m","m","a","r","i","z","e","_","t","e","x","t">>

\* The three provider stubs are shaped after SystemTools (a constructor and a
\* private helper next to a flagged method), RedactionTools (a public helper
\* without the flag next to a flagged method) and a provider that exposes
\* methods named like those of the other two.
Method(name, is_tool, coroutine) ==
    [name |-> name, is_tool |-> is_tool, coroutine |-> coroutine]

Provider(category, members) == [category |-> category, members |-> members]

SystemStub ==
    Provider("system", << Method(F_init, FALSE, FALSE),
                          Method(F_validate_path, FALSE, FALSE),
                          Method(F_read_file, TRUE, FALSE) >>)

RedactionStub ==
    Provider("redaction", << Method(F_clean_text, FALSE, FALSE),
                             Method(F_summarize_text, TRUE, FALSE) >>)

ArchiveStub ==
    Provider("archive", << Method(F_clean_text, TRUE, FALSE),
                           Method(F_read_file, TRUE, TRUE) >>)

ProviderStubs == {SystemStub, RedactionStub, ArchiveStub}

\* inspect.getmembers(instance, inspect.ismethod): every bound method of the
\* instance, flagged or not, sorted by name
GetMembers(instance) == instance.members

\* the bound method found: which instance it belongs to
BoundMethod(instance, m) ==
    [t |-> "method", owner |-> instance.category, name |-> m.name,
     coroutine |-> m.coroutine]

\* the inner loop of _find_tool: the first member called tool_name
RECURSIVE FindInMembers(_, _, _)
FindInMembers(instance, i, tool_name) ==
    IF i > Len(GetMembers(instance)) THEN NoneV
    ELSE IF GetMembers(instance)[i].name = tool_name
         THEN BoundMethod(instance, GetMembers(instance)[i])
         ELSE FindInMembers(instance, i + 1, tool_name)

\* the outer loop of _find_tool over self.tool_instances.values(), which
\* returns at the first instance that has the method
RECURSIVE FindInInstances(_, _, _)
FindInInstances(instances, j, tool_name) ==
    IF j > Len(instances) THEN NoneV
    ELSE LET method == FindInMembers(instances[j], 1, tool_name) IN
         IF method.t = "method" THEN method
         ELSE FindInInstances(instances, j + 1, tool_name)

\* ToolExecutor._find_tool on the registered instances
FindToolIn(instances, tool_name) ==
    IF ~Truthy(tool_name) THEN NoneV
    ELSE IF ~IsStr(tool_name) THEN NoneV
    ELSE FindInInstances(instances, 1, tool_name.s)

\* the inner loop of get_tool_descriptions: one line per flagged method
RECURSIVE DescribeMembers(_, _)
DescribeMembers(instance, i) ==
    IF i > Len(GetMembers(instance)) THEN <<>>
    ELSE LET m == GetMembers(instance)[i] IN
         (IF m.is_tool THEN << [name |-> m.name, owner |-> instance.category] >>
          ELSE <<>>) \o DescribeMembers(instance, i + 1)

\* get_tool_descriptions: the lines of all instances in registration order
RECURSIVE GetToolDescriptions(_, _)
GetToolDescriptions(instances, j) ==
    IF j > Len(instances) THEN <<>>
    ELSE DescribeMembers(instances[j], 1) \o GetToolDescriptions(instances, j + 1)

\* The dicts register_tools can build from the stubs: the categories are the
\* keys, so no provider is registered twice.
Registrations ==
    { r \in SeqsUpTo(ProviderStubs, MaxProviders) :
        \A i, j \in DOMAIN r : i # j => r[i] # r[j] }

\* The names a plan step can carry in its tool field.
LookupNames ==
    { StrV(F_init), StrV(F_validate_path), StrV(F_read_file),
      StrV(F_clean_text), StrV(F_summarize_text), StrV(T_nope),
      StrV(<<>>), NoneV, IntV(1) }

\* executor.py:59: a step is dispatched
FindToolCall ==
    \E tool_name \in LookupNames :
        /\ rpc = "ready"
        /\ Len(lookups) < MaxLookups
        /\ lookups' = Append(lookups,
               [name |-> tool_name,
                found |-> FindToolIn(tool_instances, tool_name)])
        /\ UNCHANGED <<tool_instances, rpc, described>>
        /\ UNCHANGED <<ovars, evars, vvars, lvars, cvars, kvars, svars>>

\* agent_orchestrator.py calls get_tool_descriptions before planning
DescribeCall ==
    /\ rpc = "ready"
    /\ Len(described) < MaxLookups
    /\ described' = Append(described, GetToolDescriptions(tool_instances, 1))
    /\ UNCHANGED <<tool_instances, rpc, lookups>>
    /\ UNCHANGED <<ovars, evars, vvars, lvars, cvars, kvars, svars>>

RegOff ==
    /\ tool_instances = <<>>
    /\ rpc = "off"
    /\ lookups = <<>>
    /\ described = <<>>

\* ------------------------------------------- the session-based executor
\* core/executor.py:35, the text put in place of the token
CONTENT_PRE == <<"C","o","n","t","e","n","t"," ","f","r","o","m"," ","p","r","e","v","i","o","u","s"," ","s","t","e","p",":","\n">>
\* core/executor.py:25, the tool name of a direct response
S_null == <<"n","u","l","l">>
\* core/executor.py:48-49
ErrorPre == <<"E","r","r","o","r",":"," ">>

\* Steps given to the session-based executor: tool calls with and without
\* the token, a direct response, a step with no args, and the shapes that
\* make step.get or tool_args.items fail.
SessSteps ==
    { Step(StrV(T_echo), MsgArgs(StrV(S_X))),
      Step(StrV(T_echo), MsgArgs(StrV(TOKEN))),
      Step(StrV(T_echo), MsgArgs(StrV(TOKEN \o S_dashY))),
      Step(StrV(T_echo), MsgArgs(IntV(42))),
      DictV([tool |-> NoneV, response |-> StrV(S_42)]),
      Step(StrV(S_null), MsgArgs(StrV(TOKEN))),
      DictV([tool |-> StrV(T_echo)]),
      Step(StrV(T_echo), StrV(TOKEN)),
      StrV(S_X) }

SessPlanInputs == {ListV(q) : q \in SeqsUpTo(SessSteps, MaxSessPlanLen)}

\* session.call_tool: the text of the result content, or an exception
SessionOutcomes == {Returned(StrV(S_42)), Raised("Exception", S_timeout)}

SessStep == splan.l[sidx]

\* core/executor.py:33-35: the value the loop leaves under each key of
\* tool_args
Inject(tool_args, last) ==
    [k \in DOMAIN tool_args.d |->
        IF IsStr(tool_args.d[k])
        THEN IF tool_args.d[k].s = TOKEN
             THEN StrV(CONTENT_PRE \o Str(last))
             ELSE tool_args.d[k]
        ELSE tool_args.d[k]]

\* core/executor.py:35: tool_args[key] = ... writes into the mapping that
\* step.get("args", {}) returned, which is the step's own args mapping when
\* the step has one and a new empty mapping when it has none
WriteArgs(p, i, newargs) ==
    IF "args" \in DOMAIN p.l[i].d
    THEN ListV([p.l EXCEPT ![i] = DictV([p.l[i].d EXCEPT !.args = DictV(newargs)])])
    ELSE p

\* core/executor.py:19: step.get on a step that is no mapping raises
\* AttributeError, which leaves execute
SessBadStep ==
    /\ spc = "loop"
    /\ sidx <= Len(splan.l)
    /\ ~IsDict(SessStep)
    /\ spc' = "raised"
    /\ UNCHANGED <<splan, sgiven, sidx, sresults, slast, scalls>>
    /\ UNCHANGED <<ovars, evars, vvars, lvars, cvars, rvars, svars>>

\* core/executor.py:25-30: a step without a tool is a direct response
SessDirect ==
    /\ spc = "loop"
    /\ sidx <= Len(splan.l)
    /\ IsDict(SessStep)
    /\ LET tool_name == DictGet(SessStep, "tool", NoneV)
           description == DictGet(SessStep, "description", StrV(<<>>))
           response_text == DictGet(SessStep, "response", description)
       IN /\ IF tool_name = NoneV THEN TRUE
             ELSE IF IsStr(tool_name) THEN tool_name.s = S_null ELSE FALSE
          /\ sresults' = Append(sresults, response_text)
          /\ slast' = response_text
    /\ sidx' = sidx + 1
    /\ UNCHANGED <<splan, sgiven, spc, scalls>>
    /\ UNCHANGED <<ovars, evars, vvars, lvars, cvars, rvars, svars>>

\* the step names a tool
SessNamesTool ==
    /\ IsDict(SessStep)
    /\ LET tool_name == DictGet(SessStep, "tool", NoneV)
       IN IF tool_name = NoneV THEN FALSE
          ELSE IF IsStr(tool_name) THEN tool_name.s # S_null ELSE TRUE

\* core/executor.py:33: tool_args.items() on args that are no mapping
\* raises AttributeError, which leaves execute
SessBadArgs ==
    /\ spc = "loop"
    /\ sidx <= Len(splan.l)
    /\ SessNamesTool
    /\ ~IsDict(DictGet(SessStep, "args", DictV(EmptyDict)))
    /\ spc' = "raised"
    /\ UNCHANGED <<splan, sgiven, sidx, sresults, slast, scalls>>
    /\ UNCHANGED <<ovars, evars, vvars, lvars, cvars, rvars, svars>>

\* core/executor.py:33-41: the token is replaced inside tool_args and the
\* tool is called through the session
SessCallTool ==
    /\ spc = "loop"
    /\ sidx <= Len(splan.l)
    /\ SessNamesTool
    /\ IsDict(DictGet(SessStep, "args", DictV(EmptyDict)))
    /\ LET tool_args == DictGet(SessStep, "args", DictV(EmptyDict))
           injected == Inject(tool_args, slast)
       IN /\ splan' = WriteArgs(splan, sidx, injected)
          /\ scalls' = Append(scalls,
                 [pos |-> sidx, tool |-> DictGet(SessStep, "tool", NoneV),
                  args |-> injected])
    /\ spc' = "await"
    /\ UNCHANGED <<sgiven, sidx, sresults, slast>>
    /\ UNCHANGED <<ovars, evars, vvars, lvars, cvars, rvars, svars>>

\* core/executor.py:41-49: the awaited call returns or raises
SessResume ==
    /\ spc = "await"
    /\ \E out \in SessionOutcomes :
          LET text == IF out.ok THEN out.val ELSE StrV(ErrorPre \o out.msg)
          IN /\ sresults' = Append(sresults, text)
             /\ slast' = text
    /\ sidx' = sidx + 1
    /\ spc' = "loop"
    /\ UNCHANGED <<splan, sgiven, scalls>>
    /\ UNCHANGED <<ovars, evars, vvars, lvars, cvars, rvars, svars>>

\* core/executor.py:51
SessReturn ==
    /\ spc = "loop"
    /\ sidx > Len(splan.l)
    /\ spc' = "returned"
    /\ UNCHANGED <<splan, sgiven, sidx, sresults, slast, scalls>>
    /\ UNCHANGED <<ovars, evars, vvars, lvars, cvars, rvars, svars>>

\* No execute of the session-based executor is running.
SessOff ==
    /\ splan = NoneV
    /\ sgiven = NoneV
    /\ spc = "off"
    /\ sidx = 0
    /\ sresults = <<>>
    /\ slast = StrV(<<>>)
    /\ scalls = <<>>

\* ------------------------------------------------ SystemTools: the sandbox
\* system_tools.py:24, the directory name joined to allowed_base_path
StorageName == <<"s","t","o","r","a","g","e">>
\* system_tools.py:46-47
STORAGE_PREFIX == <<"s","t","o","r","a","g","e","/">>
\* backend/main.py:43, the project root given as allowed_base_path
BASE_PATH == <<"/","w">>
\* a directory beside storage whose name begins like it
D_sibling == <<"s","t","o","r","a","g","e","2">>
\* system_tools.py:53
S_denied == <<"A","c","c","e","s","s"," ","d","e","n","i","e","d",":"," ">>
S_outside == <<" ","i","s"," ","o","u","t","s","i","d","e"," ","s","t","o","r","a","g","e","/">>

\* os.path.isabs on POSIX
IsAbs(path) == IF path = <<>> THEN FALSE ELSE path[1] = "/"

\* position of the last "/" in path, 0 when there is none
LastSlash(path) ==
    LET at == {i \in 1..Len(path) : path[i] = "/"}
    IN IF at = {} THEN 0 ELSE CHOOSE i \in at : \A j \in at : j <= i

\* os.path.basename
Basename(path) == SubSeq(path, LastSlash(path) + 1, Len(path))

\* os.path.join of two parts
PathJoin(a, b) ==
    IF IsAbs(b) THEN b
    ELSE IF a = <<>> THEN b
    ELSE IF a[Len(a)] = "/" THEN a \o b
    ELSE a \o <<"/">> \o b

\* str.split("/"): the parts between the separators
RECURSIVE Split(_, _, _)
Split(path, i, cur) ==
    IF i > Len(path) THEN <<cur>>
    ELSE IF path[i] = "/" THEN <<cur>> \o Split(path, i + 1, <<>>)
    ELSE Split(path, i + 1, Append(cur, path[i]))

\* the loop of os.path.normpath over the parts: "" and "." are dropped,
\* ".." takes the last part away, and is kept only in a relative path that
\* has nothing left to take away
RECURSIVE Collapse(_, _, _, _)
Collapse(comps, i, new_comps, initial_slashes) ==
    IF i > Len(comps) THEN new_comps
    ELSE LET comp == comps[i] IN
         IF comp = <<>> \/ comp = <<".">>
         THEN Collapse(comps, i + 1, new_comps, initial_slashes)
         ELSE IF \/ comp # <<".", ".">>
                 \/ (initial_slashes = 0 /\ new_comps = <<>>)
                 \/ (IF new_comps # <<>>
                     THEN new_comps[Len(new_comps)] = <<".", ".">> ELSE FALSE)
         THEN Collapse(comps, i + 1, Append(new_comps, comp), initial_slashes)
         ELSE IF new_comps # <<>>
         THEN Collapse(comps, i + 1, SubSeq(new_comps, 1, Len(new_comps) - 1),
                       initial_slashes)
         ELSE Collapse(comps, i + 1, new_comps, initial_slashes)

\* "/".join(comps)
RECURSIVE JoinSlash(_, _)
JoinSlash(comps, i) ==
    IF i > Len(comps) THEN <<>>
    ELSE IF i = Len(comps) THEN comps[i]
    ELSE comps[i] \o <<"/">> \o JoinSlash(comps, i + 1)

\* the number of leading slashes os.path.normpath keeps: two when the path
\* begins with exactly two, else one for an absolute path
InitialSlashes(path) ==
    IF ~IsAbs(path) THEN 0
    ELSE IF Len(path) >= 2 /\ path[2] = "/" /\ ~(Len(path) >= 3 /\ path[3] = "/")
    THEN 2
    ELSE 1

\* os.path.normpath
Normpath(path) ==
    IF path = <<>> THEN <<".">>
    ELSE LET n == InitialSlashes(path)
             joined == JoinSlash(Collapse(Split(path, 1, <<>>), 1, <<>>, n), 1)
             out == [i \in 1..n |-> "/"] \o joined
         IN IF out = <<>> THEN <<".">> ELSE out

\* os.path.abspath of a path that is absolute already
Abspath(path) == Normpath(path)

\* system_tools.py:24
storage_root == Abspath(PathJoin(BASE_PATH, StorageName))

\* SystemTools._validate_path (system_tools.py:35-54)
ValidatePath(path) ==
    LET p1 == IF IsAbs(path) THEN Basename(path) ELSE path
        p2 == StrReplace(p1, <<"\\">>, <<"/">>)
        p3 == IF StartsWith(p2, STORAGE_PREFIX)
              THEN SubSeq(p2, Len(STORAGE_PREFIX) + 1, Len(p2)) ELSE p2
        full_path == Abspath(PathJoin(storage_root, p3))
    IN IF ~StartsWith(full_path, storage_root)
       THEN Raised("PermissionError", S_denied \o p3 \o S_outside)
       ELSE Returned(StrV(full_path))

\* What an argument path is made of.
PathAtoms ==
    { <<"/">>, <<"\\">>, <<".", ".">>, StorageName, D_sibling, <<"a">> }

RECURSIVE Concat(_, _)
Concat(q, i) == IF i > Len(q) THEN <<>> ELSE q[i] \o Concat(q, i + 1)

\* The argument paths: every text of at most MaxPathAtoms atoms.
PathInputs == {Concat(q, 1) : q \in SeqsUpTo(PathAtoms, MaxPathAtoms)}

\* the operation ends: the file it opened or removed, or its exception
FileDone(r) ==
    /\ fout' = r
    /\ fpc' = IF r.ok THEN "done" ELSE "raised"
    /\ UNCHANGED <<fop, fpath, fconfirm>>

\* system_tools.py:127-129 read_file: the validated path is opened
ReadFile ==
    /\ fpc = "start"
    /\ fop = "read_file"
    /\ FileDone(ValidatePath(fpath))
    /\ UNCHANGED <<ovars, evars, vvars, lvars, cvars, rvars, kvars>>

\* system_tools.py:157-158 delete_file without confirm: nothing is touched
DeleteFileUnconfirmed ==
    /\ fpc = "start"
    /\ fop = "delete_file"
    /\ ~fconfirm
    /\ FileDone(Returned(NoneV))
    /\ UNCHANGED <<ovars, evars, vvars, lvars, cvars, rvars, kvars>>

\* system_tools.py:160-162 delete_file: the validated path is removed
DeleteFile ==
    /\ fpc = "start"
    /\ fop = "delete_file"
    /\ fconfirm
    /\ FileDone(ValidatePath(fpath))
    /\ UNCHANGED <<ovars, evars, vvars, lvars, cvars, rvars, kvars>>

\* No file operation is running.
SandOff ==
    /\ fop = "none"
    /\ fpath = <<>>
    /\ fconfirm = FALSE
    /\ fpc = "off"
    /\ fout = NoneV

vars == <<plan, epc, idx, results_cache, last_result, inflight, exec_ret,
          substLog, callLog, outLog, resultPos,
          cmd, opc, resolved_cmd, raw_plan, response, events, raisedLog, llm_mode,
          vraw, vpc, vret, vevents, vexc,
          threads, prefer_local, local_available, lpc, lcur, started,
          probeLog, chatLog,
          threaded, running, cplan, cpc, cidx, clast, cret, heap, cache, cmine,
          yvars>>

\* No execute_query is running.
OrchOff ==
    /\ cmd = <<>>
    /\ opc = "off"
    /\ resolved_cmd = <<>>
    /\ raw_plan = NoneV
    /\ response = NoneV
    /\ events = <<>>
    /\ raisedLog = <<>>
    /\ llm_mode = M_gemini

ExecFresh ==
    /\ idx = 0
    /\ results_cache = <<>>
    /\ last_result = StrV(<<>>)
    /\ inflight = NoneV
    /\ exec_ret = <<>>
    /\ substLog = <<>>
    /\ callLog = <<>>
    /\ outLog = <<>>
    /\ resultPos = <<>>

\* The components of this section are not in use.
RestOff == RegOff /\ SessOff /\ SandOff

\* The components of the earlier sections are not in use.
PipelineOff ==
    /\ plan = NoneV
    /\ epc = "off"
    /\ ExecFresh
    /\ OrchOff
    /\ ValOff
    /\ ClientOff
    /\ ConcOff

\* A freshly constructed ToolExecutor (executor.py:11-13) about to be given
\* one of the bounded plans.
ExecInit ==
    /\ plan \in PlanInputs
    /\ epc = "idle"
    /\ ExecFresh
    /\ OrchOff
    /\ ValOff
    /\ ClientOff
    /\ ConcOff
    /\ RestOff

ExecNext ==
    \/ ExecEnter
    \/ ExecInvalidPlan
    \/ ExecSkipStep
    \/ ExecToolNotFound
    \/ ExecCallSync
    \/ ExecCallAsync
    \/ ExecResumeAsync
    \/ ExecReturn

\* ToolExecutor.execute called directly with any of the bounded plans.
SpecExec == ExecInit /\ [][ExecNext]_vars

\* execute_query(cmd) is called on the components wired in backend/main.py.
Init ==
    /\ cmd \in UserTexts
    /\ llm_mode \in {M_local, M_gemini}
    /\ opc = "start"
    /\ resolved_cmd = <<>>
    /\ raw_plan = NoneV
    /\ response = NoneV
    /\ events = <<>>
    /\ raisedLog = <<>>
    /\ plan = NoneV
    /\ epc = "off"
    /\ ExecFresh
    /\ ValOff
    /\ ClientOff
    /\ ConcOff
    /\ RestOff

Next ==
    \/ OrchPreProcess
    \/ OrchPlanRaises
    \/ OrchPlanDirectText
    \/ OrchPlanFallthrough
    \/ OrchPlanBadStep
    \/ OrchPlanNoTool
    \/ OrchPlanExecute
    \/ ExecEnter
    \/ ExecSkipStep
    \/ ExecToolNotFound
    \/ ExecCallSync
    \/ ExecCallAsync
    \/ ExecResumeAsync
    \/ ExecReturn
    \/ OrchSummarizeNoResults
    \/ OrchSummarize
    \/ OrchDirect

Spec == Init /\ [][Next]_vars

\* LLMPlanValidator.validate called with any of the bounded raw plans.
ValInit ==
    /\ vraw \in ValRawPlans
    /\ vpc = "start"
    /\ vret = NoneV
    /\ vevents = <<>>
    /\ vexc = NoneV
    /\ plan = NoneV
    /\ epc = "off"
    /\ ExecFresh
    /\ OrchOff
    /\ ClientOff
    /\ ConcOff
    /\ RestOff

ValNext ==
    \/ ValFast
    \/ ValFastRaises
    \/ ValSlow

SpecValidate == ValInit /\ [][ValNext]_vars

\* A freshly constructed LLMClient (llm_client.py:27-31) used by the given
\* threads.
ClientFresh(callers) ==
    /\ threads = callers
    /\ prefer_local \in BOOLEAN
    /\ local_available = NoneV
    /\ lpc = [t \in AllThreads |-> "idle"]
    /\ lcur = [t \in AllThreads |-> NoCall]
    /\ started = 0
    /\ probeLog = <<>>
    /\ chatLog = <<>>
    /\ plan = NoneV
    /\ epc = "off"
    /\ ExecFresh
    /\ OrchOff
    /\ ValOff
    /\ ConcOff
    /\ RestOff

ClientNext ==
    \E t \in AllThreads :
        \/ ClientStart(t)
        \/ SelectRemote(t)
        \/ CheckLocalCached(t)
        \/ CheckLocalProbe(t)
        \/ ProbeDone(t)
        \/ CheckLocalReturn(t)
        \/ ChatLocal(t)
        \/ GeminiAttempt(t)
        \/ GeminiWake(t)
        \/ GeminiGiveUp(t)

\* One caller: calls of chat and reads of mode, one after the other.
ClientInit == ClientFresh({"console"})

SpecClient == ClientInit /\ [][ClientNext]_vars

\* The console thread and the API thread call the client of
\* backend/main.py:37 at the same time (main.py:167, 192-193, 205-207).
ClientConcInit == ClientFresh({"api", "console"})

SpecClientConc == ClientConcInit /\ [][ClientNext]_vars

\* Two invocations of execute on the executor of backend/main.py:45.
ConcInit ==
    /\ threaded \in BOOLEAN
    /\ running = "none"
    /\ cplan \in [Invs -> ConcPlanInputs]
    /\ cpc = [p \in Invs |-> "idle"]
    /\ cidx = [p \in Invs |-> 0]
    /\ clast = [p \in Invs |-> StrV(<<>>)]
    /\ cret = [p \in Invs |-> 0]
    /\ heap = <<<<>>>>
    /\ cache = 1
    /\ cmine = [p \in Invs |-> <<>>]
    /\ plan = NoneV
    /\ epc = "off"
    /\ ExecFresh
    /\ OrchOff
    /\ ValOff
    /\ ClientOff
    /\ RestOff

ConcNext ==
    \E p \in Invs :
        \/ ConcEnter(p)
        \/ ConcSkipStep(p)
        \/ ConcToolNotFound(p)
        \/ ConcCallSync(p)
        \/ ConcCallAsync(p)
        \/ ConcResumeAsync(p)
        \/ ConcReturn(p)

SpecConc == ConcInit /\ [][ConcNext]_vars

\* The tool instances of backend/main.py:44-45 after register_tools, for
\* every bounded registration.
RegInit ==
    /\ tool_instances \in Registrations
    /\ rpc = "ready"
    /\ lookups = <<>>
    /\ described = <<>>
    /\ PipelineOff
    /\ SessOff
    /\ SandOff

RegNext ==
    \/ FindToolCall
    \/ DescribeCall

SpecRegistry == RegInit /\ [][RegNext]_vars

\* execute_query on the wired components, or chat calls on the client it
\* uses, where every awaited call (model backend, tool handler, sleep)
\* comes back: no step that can be taken is put off for ever.
TermInit == Init \/ ClientInit

TermNext == Next \/ ClientNext

SpecTerminates == TermInit /\ [][TermNext]_vars /\ WF_vars(TermNext)

\* execute(plan, session) of core/executor.py is called with any of the
\* bounded plans; results and last_result are as lines 15-16 set them.
SessInit ==
    /\ splan \in SessPlanInputs
    /\ sgiven = splan
    /\ spc = "loop"
    /\ sidx = 1
    /\ sresults = <<>>
    /\ slast = StrV(<<>>)
    /\ scalls = <<>>
    /\ PipelineOff
    /\ RegOff
    /\ SandOff

SessNext ==
    \/ SessBadStep
    \/ SessDirect
    \/ SessBadArgs
    \/ SessCallTool
    \/ SessResume
    \/ SessReturn

SpecSession == SessInit /\ [][SessNext]_vars

\* read_file or delete_file of the SystemTools built in
\* tool_registry.py:17 is called with any of the bounded paths.
SandInit ==
    /\ fop \in {"read_file", "delete_file"}
    /\ fpath \in PathInputs
    /\ fconfirm \in BOOLEAN
    /\ fop = "read_file" => ~fconfirm
    /\ fpc = "start"
    /\ fout = NoneV
    /\ PipelineOff
    /\ RegOff
    /\ SessOff

SandNext ==
    \/ ReadFile
    \/ DeleteFileUnconfirmed
    \/ DeleteFile

SpecSandbox == SandInit /\ [][SandNext]_vars

\* ------------------------------------------------ claims on execute_query
EventsBy(who) == {i \in DOMAIN events : events[i].by = who}

\* json.loads of the cleaned raw plan the planner returned
HasRawPlan == raw_plan.t = "text"
ParsedPlan == JsonLoads(CleanPlan(raw_plan.lex))

\* C1: execute_query never raises: whatever the model client, the planner,
\* the executor and the summarizer do, it ends by returning a mapping whose
\* type is "text" and that has a content field; an exception raised at any
\* stage has been turned into the error content, and no stage is left without
\* a next step.
C1_NeverRaises ==
    /\ opc # "raised"
    /\ epc # "raised"
    /\ opc = "done" =>
          /\ IsDict(response)
          /\ DictGet(response, "type", NoneV) = StrV(T_text)
          /\ "content" \in DOMAIN response.d
    /\ (opc = "done" /\ raisedLog # <<>>) =>
          /\ Len(raisedLog) = 1
          /\ response.d.content = StrV(AgentErrPre \o raisedLog[1].msg)
    /\ opc \in {"start", "plan", "execute", "fallback"} => ENABLED Next

\* C1 witness: plan[0] is no mapping, the AttributeError of plan[0].get is
\* returned as error content.
C1_Witness ==
    /\ opc = "done"
    /\ raisedLog # <<>>
    /\ raisedLog[1].kind = "AttributeError"
    /\ IsStr(response.d.content)
    /\ Contains(response.d.content.s, A_get)
    /\ StartsWith(response.d.content.s, AgentErrPre)

\* The raw plan parses to a non-empty list whose first step is a mapping with
\* a null or absent tool.
FirstStepNoTool ==
    /\ HasRawPlan
    /\ ParsedPlan.ok
    /\ IsList(ParsedPlan.val)
    /\ ParsedPlan.val.l # <<>>
    /\ IsDict(ParsedPlan.val.l[1])
    /\ \/ "tool" \notin DOMAIN ParsedPlan.val.l[1].d
       \/ ParsedPlan.val.l[1].d.tool = NoneV

NoExecutorNoSummarizer == EventsBy("executor") = {} /\ EventsBy("summarizer") = {}

\* C2 as stated: with a first step whose tool is null or absent, the content
\* returned is that step's response field, and neither the executor nor the
\* summarizer is invoked.
C2_Original ==
    FirstStepNoTool =>
        /\ NoExecutorNoSummarizer
        /\ opc = "done"
        /\ "response" \in DOMAIN ParsedPlan.val.l[1].d
        /\ response.d.content = ParsedPlan.val.l[1].d.response

\* C2 amended: with a first step whose tool is null or absent, execute_query
\* returns at once, without invoking the executor or the summarizer and
\* without a further model call, whatever further steps the plan holds; the
\* content is that step's response field when the step has one, and the fixed
\* text "No response generated." when it has none.
C2_NoToolShortCircuit ==
    FirstStepNoTool =>
        /\ NoExecutorNoSummarizer
        /\ opc = "done"
        /\ Len(events) = 2
        /\ response.d.content =
              IF "response" \in DOMAIN ParsedPlan.val.l[1].d
              THEN ParsedPlan.val.l[1].d.response
              ELSE StrV(NoResponseMsg)

\* C2 witness: [{"tool": null, "response": "42"}, <a tool step>] answers "42".
C2_Witness ==
    /\ FirstStepNoTool
    /\ Len(ParsedPlan.val.l) = 2
    /\ ~Skipped(ParsedPlan.val.l[2])
    /\ opc = "done"
    /\ response.d.content = StrV(S_42)

\* C3: when the raw plan, after the markdown fences are stripped, is no JSON,
\* execute_query returns that stripped text as content and ends: the planner's
\* model call is the last call, the executor and the summarizer are not
\* invoked.
C3_UnparseablePlanIsAnswer ==
    (HasRawPlan /\ ~ParsedPlan.ok) =>
        /\ opc = "done"
        /\ raisedLog = <<>>
        /\ NoExecutorNoSummarizer
        /\ Len(events) = 2
        /\ events[2].by = "planner"
        /\ response.d.content = TextV(CleanPlan(raw_plan.lex))
        /\ \A i \in DOMAIN response.d.content.lex :
              response.d.content.lex[i].lx \notin {"fence", "fence_json"}

\* C3 witness: "```Sure!``` " is answered with "Sure!".
C3_Witness ==
    /\ opc = "done"
    /\ raw_plan = TextV(<<Fence, Word(S_sure), Fence, Ws>>)
    /\ response.d.content = TextV(<<Word(S_sure)>>)

EmptyListPlan == HasRawPlan /\ ParsedPlan.ok /\ ParsedPlan.val = ListV(<<>>)

\* C4: when the raw plan parses to an empty list, the executor and the
\* summarizer are skipped, exactly one direct model call is issued, it carries
\* the user's text, and the output of that call is the content returned.
C4_EmptyPlanDirectCall ==
    EmptyListPlan =>
        /\ NoExecutorNoSummarizer
        /\ opc \in {"fallback", "done"}
        /\ opc = "fallback" => EventsBy("direct") = {}
        /\ opc = "done" =>
              /\ Len(events) = 3
              /\ events[3] = Event("chat", "direct", StrV(cmd), events[3].out)
              /\ events[3].out.ok => response.d.content = events[3].out.val

\* C4 witness: the direct call answered "Sure!" and that is the content.
C4_Witness ==
    /\ EmptyListPlan
    /\ opc = "done"
    /\ raisedLog = <<>>
    /\ response.d.content = StrV(S_sure)
    /\ cmd # resolved_cmd

\* C5 as stated: every plan handed to executor.execute was returned by
\* validator.validate earlier in the same invocation.
C5_PlanFromValidator ==
    \A i \in DOMAIN events :
        events[i].by = "executor" =>
            \E j \in 1..(i - 1) :
                /\ events[j].by = "validator"
                /\ events[j].out = Returned(events[i].arg)

\* --------------------------------------------------- claims on execute
\* A step is structurally valid: a mapping whose tool is present, not null,
\* not empty and not the literal "step".
StructurallyValid(step) ==
    /\ IsDict(step)
    /\ "tool" \in DOMAIN step.d
    /\ step.d.tool # NoneV
    /\ step.d.tool # StrV(<<>>)
    /\ step.d.tool # StrV(STEP_LIT)

ValidPositions == {i \in 1..Len(plan.l) : StructurallyValid(plan.l[i])}

HasResult(p) == \E j \in DOMAIN resultPos : resultPos[j] = p

\* every structurally valid step got a result
AllValidStepsProcessed == \A q \in ValidPositions : HasResult(q)

\* C6: for a plan that is a list, execute returns as many results as the plan
\* has structurally valid steps; invalid steps add no result and do not stop
\* the run; the i-th result is the one of the i-th valid step.
C6_OneResultPerValidStep ==
    IsList(plan) =>
        /\ Len(results_cache) = Len(resultPos)
        /\ \A j \in DOMAIN resultPos : resultPos[j] \in ValidPositions
        /\ \A j, k \in DOMAIN resultPos : j < k => resultPos[j] < resultPos[k]
        /\ epc = "returned" =>
              /\ exec_ret = results_cache
              /\ Len(exec_ret) = Cardinality(ValidPositions)
              /\ AllValidStepsProcessed

\* C6 witness: three steps, only the middle one valid, one result.
C6_Witness ==
    /\ epc = "returned"
    /\ IsList(plan)
    /\ Len(plan.l) = 3
    /\ ValidPositions = {2}
    /\ Len(exec_ret) = 1

\* The text with every occurrence of the token replaced: what comes before
\* the first occurrence, the carry, and the same for what follows.
RECURSIVE ExpectedSubst(_, _)
ExpectedSubst(s, carry) ==
    IF ~Contains(s, TOKEN) THEN s
    ELSE LET i == CHOOSE n \in 1..Len(s) :
                     /\ MatchAt(s, TOKEN, n)
                     /\ \A m \in 1..(n - 1) : ~MatchAt(s, TOKEN, m)
         IN SubSeq(s, 1, i - 1) \o carry
                \o ExpectedSubst(SubSeq(s, i + Len(TOKEN), Len(s)), carry)

SubstOf(p) == CHOOSE e \in {substLog[i] : i \in DOMAIN substLog} : e.pos = p

\* C7: a handler is invoked with the step's arguments in which every
\* occurrence of PREVIOUS_RESULT inside a string value is replaced by the
\* stringified carry and the rest of the text is kept; values that are no
\* strings or hold no token are passed unchanged.  "PREVIOUS_RESULT-Y" after
\* a result "X" is passed as "X-Y".
C7_Substitution ==
    /\ \A i \in DOMAIN callLog :
          LET c == callLog[i]
              args == ArgsOf(plan.l[c.pos])
              carry == SubstOf(c.pos).carry
          IN IsDict(args) =>
                /\ DOMAIN c.args = DOMAIN args.d
                /\ \A k \in DOMAIN args.d :
                      c.args[k] = IF IsStr(args.d[k])
                                  THEN StrV(ExpectedSubst(args.d[k].s, carry))
                                  ELSE args.d[k]
    /\ (/\ IsList(plan)
        /\ plan.l = <<Step(StrV(T_echo), MsgArgs(StrV(S_X))),
                      Step(StrV(T_echo), MsgArgs(StrV(TOKEN \o S_dashY)))>>
        /\ epc = "returned")
          => /\ callLog[2].args = [msg |-> StrV(<<"X", "-", "Y">>)]
             /\ exec_ret = <<S_X, <<"X", "-", "Y">> >>

\* C7 witness: the token twice after a partial token, following a result "X":
\* "PREVIOUS_PREVIOUS_RESULTPREVIOUS_RESULT" is passed as "PREVIOUS_XX".
C7_Witness ==
    /\ Len(callLog) = 2
    /\ callLog[1].args = [msg |-> StrV(S_X)]
    /\ ArgsOf(plan.l[callLog[2].pos]) =
          MsgArgs(StrV(SubSeq(TOKEN, 1, 9) \o TOKEN \o TOKEN))
    /\ callLog[2].args = [msg |-> StrV(SubSeq(TOKEN, 1, 9) \o <<"X", "X">>)]

\* the step has a string argument that holds the token
UsesToken(step) ==
    /\ IsDict(ArgsOf(step))
    /\ \E k \in DOMAIN ArgsOf(step).d :
          /\ IsStr(ArgsOf(step).d[k])
          /\ Contains(ArgsOf(step).d[k].s, TOKEN)

\* C8 as stated: the value substituted for the token in step k is the result
\* of the step at position k-1 of the plan.
C8_Original ==
    \A i \in DOMAIN substLog :
        LET e == substLog[i]
        IN (UsesToken(plan.l[e.pos]) /\ e.pos > 1) =>
              \E j \in DOMAIN resultPos :
                  /\ resultPos[j] = e.pos - 1
                  /\ e.carry = results_cache[j]

\* C8 amended: the value substituted for the token in step k is the result of
\* the nearest step before k that was not skipped, and the empty text when
\* there is none: the step at position k-1 when that step is structurally
\* valid, else the last valid step before it, never the result of a step
\* before that one.
C8_CarryIsLastExecuted ==
    \A i \in DOMAIN substLog :
        LET e == substLog[i]
            prev == {j \in DOMAIN resultPos : resultPos[j] < e.pos}
        IN UsesToken(plan.l[e.pos]) =>
              IF prev = {} THEN e.carry = <<>>
              ELSE LET j == CHOOSE m \in prev : \A n \in prev : n <= m
                   IN /\ e.carry = results_cache[j]
                      /\ \A q \in (resultPos[j] + 1)..(e.pos - 1) :
                            ~StructurallyValid(plan.l[q])

\* C8 witness: step 3 uses the token, step 2 was skipped, the carry is the
\* result "X" of step 1.
C8_Witness ==
    /\ Len(substLog) = 2
    /\ substLog[2].pos = 3
    /\ ~StructurallyValid(plan.l[2])
    /\ UsesToken(plan.l[3])
    /\ substLog[2].carry = S_X

\* the step at position p names a tool no provider has
UnknownTool(p) ==
    /\ StructurallyValid(plan.l[p])
    /\ ~(IsStr(plan.l[p].d.tool) /\ plan.l[p].d.tool.s \in ToolMethods)

\* the marker of an unresolved tool inside executor.py:61
NotFoundMarker == <<"n","o","t"," ","f","o","u","n","d">>

\* C9: a step naming a tool that no registered provider exposes produces
\* exactly one result, which holds the "not found" marker; execute raises
\* nothing, and every later step of the plan is still processed.
C9_UnknownToolContained ==
    IsList(plan) =>
        /\ epc # "raised"
        /\ epc \in {"idle", "loop", "await"} => ENABLED ExecNext
        /\ \A p \in 1..Len(plan.l) :
              (UnknownTool(p) /\ idx > p) =>
                  /\ Cardinality({j \in DOMAIN resultPos : resultPos[j] = p}) = 1
                  /\ \A j \in DOMAIN resultPos :
                        resultPos[j] = p =>
                            /\ Contains(results_cache[j], NotFoundMarker)
                            /\ Contains(results_cache[j], Str(plan.l[p].d.tool))
                  /\ epc = "returned" =>
                        \A q \in ValidPositions : q > p => HasResult(q)

\* C9 witness: [nope, echo X] returns the not-found text and then "X".
C9_Witness ==
    /\ epc = "returned"
    /\ IsList(plan)
    /\ Len(plan.l) = 2
    /\ UnknownTool(1)
    /\ Len(exec_ret) = 2
    /\ Contains(exec_ret[1], NotFoundMarker)
    /\ exec_ret[2] = S_X

\* C10: execute raises nothing for a plan that is a list; when a resolved
\* handler, plain or coroutine, raises, the result of its step is the text
\* "Error executing <tool>: <message>" and every later step is processed.
C10_HandlerFailureContained ==
    IsList(plan) =>
        /\ epc # "raised"
        /\ epc \in {"idle", "loop", "await"} => ENABLED ExecNext
        /\ \A i \in DOMAIN outLog :
              ~outLog[i].out.ok =>
                  /\ Cardinality({j \in DOMAIN resultPos :
                                     resultPos[j] = outLog[i].pos}) = 1
                  /\ \A j \in DOMAIN resultPos :
                        resultPos[j] = outLog[i].pos =>
                            results_cache[j] =
                                ErrExecPre \o Str(ToolOf(plan.l[outLog[i].pos]))
                                    \o ColonSp \o outLog[i].out.msg
        /\ epc = "returned" => AllValidStepsProcessed

\* C10 witness: a plain handler raises, then a coroutine handler raises, both
\* are recorded and the plan ends with two results.
C10_Witness ==
    /\ epc = "returned"
    /\ IsList(plan)
    /\ Len(outLog) = 2
    /\ ~outLog[1].out.ok
    /\ ~outLog[2].out.ok
    /\ callLog[2].tool = T_aecho
    /\ Len(exec_ret) = 2
    /\ exec_ret[2] = ErrExecPre \o T_aecho \o ColonSp \o S_timeout

\* ------------------------------------------------- claims on summarize
\* an error marker of the executor: the result of a step whose tool was not
\* found (executor.py:61) or whose handler raised (executor.py:75)
ErrorMarker(r) ==
    \/ StartsWith(r, ErrExecPre)
    \/ StartsWith(r, NotFoundPre) /\ Contains(r, NotFoundMarker)

\* the summarizer was given a list all of whose results are error markers
\* (an empty list among them)
SummarizeOnlyErrors ==
    \E i \in EventsBy("summarizer") :
        /\ events[i].op = "call"
        /\ \A j \in DOMAIN events[i].arg.l : ErrorMarker(events[i].arg.l[j].s)

SummarizerChats ==
    {i \in EventsBy("summarizer") : events[i].op = "chat"}

\* C11: when every result passed to summarize is an error marker of the
\* executor (a "not found" result or an "Error executing" result), or the
\* list is empty, summarize returns the fixed no-results message and makes
\* no model call.
C11_SummarizerFallback ==
    SummarizeOnlyErrors =>
        /\ SummarizerChats = {}
        /\ opc = "done" => response.d.content = StrV(NoResultsMsg)

\* --------------------------------------------------- claims on validate
\* the raw plan is exactly one JSON array whose elements are mappings with
\* a tool key and an args key
WellFormedStep(e) == IsDict(e) /\ {"tool", "args"} \subseteq DOMAIN e.d

WellFormedArray ==
    /\ vraw.t = "text"
    /\ Len(vraw.lex) = 1
    /\ vraw.lex[1].lx = "json"
    /\ IsList(vraw.lex[1].doc)
    /\ \A i \in DOMAIN vraw.lex[1].doc.l : WellFormedStep(vraw.lex[1].doc.l[i])

ValEnded == vpc \in {"done", "raised"}

\* C12 as stated: for every raw plan that is a JSON array of well-formed
\* steps, validate returns the parsed structure and makes no model call.
C12_Original ==
    (WellFormedArray /\ ValEnded) =>
        /\ vpc = "done"
        /\ vret = vraw.lex[1].doc
        /\ vevents = <<>>

\* C12: for every raw plan that is a non-empty JSON array of well-formed
\* steps, validate returns exactly the parsed structure, every args value
\* as written, and makes no model call; for the empty array it makes one
\* model call, the repair request.
C12_FastPathUnchanged ==
    (WellFormedArray /\ ValEnded) =>
        IF vraw.lex[1].doc.l # <<>>
        THEN /\ vpc = "done"
             /\ vret = vraw.lex[1].doc
             /\ vevents = <<>>
        ELSE /\ Len(vevents) = 1
             /\ vevents[1].arg = vraw

\* C12 witness: an array of two well-formed steps, one of them with an
\* array among its arguments, came back as it was written.
C12_Witness ==
    /\ vpc = "done"
    /\ WellFormedArray
    /\ vevents = <<>>
    /\ Len(vret.l) = 2
    /\ \E i \in 1..2 :
          /\ "msg" \in DOMAIN vret.l[i].d.args.d
          /\ IsList(vret.l[i].d.args.d.msg)
    /\ vret = vraw.lex[1].doc

\* C13: the list validate returns is empty, or each of its elements is a
\* mapping with a tool key and an args key, on the fast path and on the
\* slow path.
C13_WholesaleRejection ==
    vpc = "done" =>
        /\ IsList(vret)
        /\ \A i \in DOMAIN vret.l : WellFormedStep(vret.l[i])

\* the text holds no JSON document at all
NoJson(text) == text.t = "text" /\ \A i \in DOMAIN text.lex : text.lex[i].lx # "json"

\* the text holds one JSON array and no bracket outside it
OneArray(text) ==
    /\ text.t = "text"
    /\ \E i \in DOMAIN text.lex :
          /\ text.lex[i].lx = "json"
          /\ IsList(text.lex[i].doc)
          /\ \A j \in DOMAIN text.lex : j # i => text.lex[j].lx \in {"ws", "fence", "fence_json"}

TheArray(text) ==
    text.lex[CHOOSE i \in DOMAIN text.lex : text.lex[i].lx = "json"].doc

\* C14 as stated: for a raw plan that holds no JSON array, validate returns
\* the empty list and raises nothing.
C14_Original ==
    (NoJson(vraw) /\ ValEnded) =>
        /\ vpc = "done"
        /\ vret = ListV(<<>>)

\* C14: for a raw plan that holds no JSON array, validate makes exactly one
\* model call, the repair request for that raw plan.  When the reply is a
\* text, validate raises nothing and returns the array found in the reply,
\* the empty list when the reply holds none; when the model call raises or
\* returns no text, validate raises.
C14_GarbageIsRepaired ==
    (NoJson(vraw) /\ ValEnded) =>
        /\ Len(vevents) = 1
        /\ vevents[1].by = "validator"
        /\ vevents[1].arg = vraw
        /\ IF vevents[1].out.ok
           THEN IF vevents[1].out.val.t = "text"
                THEN /\ vpc = "done"
                     /\ IsList(vret)
                     /\ NoJson(vevents[1].out.val) => vret = ListV(<<>>)
                     /\ OneArray(vevents[1].out.val) =>
                            vret = TheArray(vevents[1].out.val)
                ELSE vpc = "raised" /\ vexc.kind = "TypeError"
           ELSE vpc = "raised" /\ vexc = vevents[1].out

\* C14 witness: prose with brackets in it was sent for repair, the reply was
\* prose with brackets again, and validate returned the empty list.
C14_Witness ==
    /\ vpc = "done"
    /\ vraw = TextV(<<Word(S_seex)>>)
    /\ vret = ListV(<<>>)
    /\ Len(vevents) = 1
    /\ vevents[1].out = Returned(TextV(<<Word(S_seex)>>))

\* -------------------------------------------------- claims on LLMClient
\* the calls in progress and the calls that ended
CallsOpen == {lcur[t] : t \in {u \in AllThreads : lcur[u].op # "none"}}
CallsEnded == {chatLog[i] : i \in DOMAIN chatLog}

\* the backend the cached availability stands for
BackendOf(avail) == IF avail.b THEN M_local ELSE M_gemini

\* C15: for one client instance, across any sequence of chat calls and mode
\* reads, the liveness probe is issued at most once (never when the client
\* does not prefer the local backend); once the probe has ended, its result
\* is the cached availability for good, and every later call takes its
\* backend from it without probing.
C15_ProbeOnce ==
    /\ Len(probeLog) <= 1
    /\ ~prefer_local => probeLog = <<>>
    /\ local_available # NoneV =>
          /\ Len(probeLog) = 1
          /\ probeLog[1].result = local_available
    /\ \A i \in DOMAIN chatLog :
          /\ chatLog[i].probe # 0 => i = 1
          /\ prefer_local =>
                /\ local_available # NoneV
                /\ chatLog[i].backend = BackendOf(probeLog[1].result)

\* C15 witness: the probe failed during the first chat call, the second chat
\* call did not probe and went to the remote backend as the first did.
C15_Witness ==
    /\ Len(chatLog) = 2
    /\ Len(probeLog) = 1
    /\ probeLog[1].result = BoolV(FALSE)
    /\ chatLog[1].op = "chat" /\ chatLog[1].probe = 1
    /\ chatLog[2].op = "chat" /\ chatLog[2].probe = 0
    /\ chatLog[2].backend = M_gemini
    /\ local_available = BoolV(FALSE)

\* a rate-limit failure: an error whose text contains "429" or, in any
\* letter case, "quota"
RateLimited(out) ==
    /\ ~out.ok
    /\ Contains(out.msg, <<"4", "2", "9">>)
           \/ Contains(Lower(out.msg), <<"q", "u", "o", "t", "a">>)

\* the terminal failure of llm_client.py:124
TerminalFailure == Raised("Exception", S_backend)

\* C16: a chat call on the remote backend makes at most 3 attempts.  Every
\* attempt before the last one was a rate-limit failure, and every rate-limit
\* failure is followed by one wait.  The call ends with the text of a
\* successful attempt, with the error of an attempt that failed otherwise
\* (no wait after it), or, after 3 rate-limit failures, with the terminal
\* failure.
C16_BoundedRetry ==
    /\ \A c \in CallsOpen :
          /\ Len(c.tries) <= 3
          /\ Len(c.waits) = Len(c.tries)
          /\ c.attempt \in {Len(c.tries), Len(c.tries) - 1}
          /\ \A k \in DOMAIN c.tries : RateLimited(c.tries[k])
    /\ \A c \in CallsEnded :
          (c.op = "chat" /\ c.backend = M_gemini) =>
              LET n == Len(c.tries)
              IN /\ n \in 1..3
                 /\ \A k \in 1..(n - 1) : RateLimited(c.tries[k])
                 /\ IF RateLimited(c.tries[n])
                    THEN /\ n = 3
                         /\ Len(c.waits) = 3
                         /\ c.out = TerminalFailure
                    ELSE /\ Len(c.waits) = n - 1
                         /\ c.out = c.tries[n]

\* C16 witness: three rate-limit failures, one of them a "Quota ..." error,
\* ended in the terminal failure; another call ended at once with an error
\* that is no rate limit.
C16_Witness ==
    /\ Len(chatLog) = 2
    /\ Len(chatLog[1].tries) = 3
    /\ chatLog[1].tries[2] = Raised("Exception", S_Quota)
    /\ chatLog[1].tries[3] = Raised("Exception", S_429)
    /\ chatLog[1].out = TerminalFailure
    /\ Len(chatLog[2].tries) = 1
    /\ chatLog[2].out = Raised("Exception", S_refused)
    /\ chatLog[2].waits = <<>>

\* the waits grow by a constant factor greater than 1
Exponential(w) ==
    /\ Len(w) >= 2 => w[2] > w[1]
    /\ \A k \in 2..(Len(w) - 1) : w[k + 1] * w[k - 1] = w[k] * w[k]

\* C17: the backoff is exponential: the waits of one chat call start at the
\* base wait and each is the same multiple, greater than 1, of the one
\* before.
C17_ExponentialBackoff ==
    \A c \in CallsOpen \cup CallsEnded :
        /\ c.waits # <<>> => c.waits[1] = BASE_WAIT
        /\ Exponential(c.waits)

\* C19: when chat calls and mode reads of two threads run at the same time
\* on one client, the liveness probe is issued at most once and all calls
\* use the same backend.
C19_OneProbeOneMode ==
    /\ Len(probeLog) <= 1
    /\ \A i, j \in DOMAIN chatLog : chatLog[i].backend = chatLog[j].backend

\* ----------------------------------------- claims on a shared executor
\* C18: the list an invocation of execute returned holds exactly the results
\* of that invocation's own steps, in order, under every interleaving with
\* another invocation on the same executor.
C18_InvocationsIndependent ==
    \A p \in Invs : cpc[p] = "returned" => heap[cret[p]] = cmine[p]

\* ------------------------------------------- claims on execute, order
\* C20: within one execute the handlers run one after the other in plan
\* order: a handler is invoked only when every handler invoked before it has
\* returned or raised and the result of its step is recorded; at most one
\* invocation is open, and only while execute awaits a coroutine handler.
C20_StrictlySequential ==
    /\ Len(callLog) \in {Len(outLog), Len(outLog) + 1}
    /\ Len(callLog) = Len(outLog) + 1 <=>
          /\ epc = "await"
          /\ inflight # NoneV
    /\ epc = "await" => inflight.pos = callLog[Len(callLog)].pos
    /\ \A i \in DOMAIN outLog :
          /\ outLog[i].pos = callLog[i].pos
          /\ HasResult(outLog[i].pos)
    /\ \A i \in 2..Len(callLog) : callLog[i - 1].pos < callLog[i].pos

\* C20 witness: a coroutine handler and then a plain handler were invoked,
\* the second after the first had ended and its result was recorded.
C20_Witness ==
    /\ epc = "returned"
    /\ Len(callLog) = 2
    /\ Len(outLog) = 2
    /\ callLog[1].tool = T_aecho
    /\ callLog[2].tool = T_echo
    /\ Len(exec_ret) = 2

\* ------------------------------------------------- claims on the registry
\* the names get_tool_descriptions renders for the registered instances
RenderedNames ==
    LET lines == GetToolDescriptions(tool_instances, 1)
    IN {lines[i].name : i \in DOMAIN lines}

\* C21: a tool name resolves to a handler at dispatch exactly when it is the
\* name of a flagged method of a registered provider, that is one of the
\* names the tool description renders; the name of an unflagged helper or
\* private method, like every other name, resolves to not-found.
C21_ResolvesIffFlagged ==
    \A i \in DOMAIN lookups :
        (lookups[i].found.t = "method")
            <=> IF IsStr(lookups[i].name)
                THEN lookups[i].name.s \in RenderedNames
                ELSE FALSE

\* the registered instances that have a method of that name
Exposers(name) ==
    {j \in DOMAIN tool_instances :
        \E i \in DOMAIN GetMembers(tool_instances[j]) :
            GetMembers(tool_instances[j])[i].name = name}

LastOf(S) == CHOOSE j \in S : \A k \in S : k <= j

\* C22: when two registered providers expose a method of the same name,
\* resolving the name returns the method of the provider registered last.
C22_LastRegisteredWins ==
    \A i \in DOMAIN lookups :
        IF IsStr(lookups[i].name)
        THEN LET owners == Exposers(lookups[i].name.s) IN
             Cardinality(owners) >= 2 =>
                 /\ lookups[i].found.t = "method"
                 /\ lookups[i].found.owner = tool_instances[LastOf(owners)].category
        ELSE TRUE

\* ----------------------------------------------------- claims on termination
\* every handler invocation belongs to a plan step of its own
OneCallPerStep ==
    /\ \A i \in DOMAIN callLog : callLog[i].pos \in 1..Len(plan.l)
    /\ \A i, j \in DOMAIN callLog : i # j => callLog[i].pos # callLog[j].pos

\* the attempts made on the remote backend by the calls in progress
AttemptsBounded ==
    \A t \in AllThreads :
        lcur[t].op = "chat" => Len(lcur[t].tries) <= RETRIES

\* execute_query has returned or raised, and no chat call is in progress
AllReturned ==
    /\ opc \in {"off", "done", "raised"}
    /\ \A t \in AllThreads : lpc[t] = "idle"

\* C23: every execute_query invocation eventually returns, given that every
\* backend call and every handler call comes back: the executor makes at
\* most one handler call per step of the finite plan, and the retry loop of
\* the model client ends after a bounded number of attempts, so that every
\* chat call ends too.
C23_EventuallyReturns ==
    /\ <>[]AllReturned
    /\ [](OneCallPerStep /\ AttemptsBounded)

\* an invocation has returned after the executor ran every step of a plan
\* of two handler calls
C23_Witness ==
    /\ opc = "done"
    /\ epc = "returned"
    /\ Len(callLog) = 2
    /\ EventsBy("summarizer") # {}

\* --------------------------------------------- claims on validate, continued
\* the array the fast path extracts from the raw plan, if it finds one
FastArray == ExtractJson(vraw)

\* the fast path accepts: it finds a JSON array, the array is not empty and
\* each of its elements has a tool key and an args key
FastAccepts ==
    IF FastArray.ok
    THEN /\ FastArray.val.l # <<>>
         /\ \A i \in DOMAIN FastArray.val.l : WellFormedStep(FastArray.val.l[i])
    ELSE FALSE

\* C24: validate makes a model call exactly when the fast path does not
\* accept the raw text (no JSON array that parses, an empty array, or an
\* element without a tool or args key); it makes at most one model call, at
\* sampling temperature 0, and the list it returns is then the array
\* extracted from the output of that call.
C24_ModelCallIffNotAccepted ==
    ValEnded =>
        /\ (vevents # <<>>) <=> ~FastAccepts
        /\ Len(vevents) <= 1
        /\ \A i \in DOMAIN vevents : vevents[i].temperature = 0
        /\ (vpc = "done" /\ vevents # <<>>) =>
               vret = ExtractJson(vevents[1].out.val).val

\* ------------------------------------- claims on execute_query, continued
\* the model calls in the history
ChatEvents == {i \in DOMAIN events : events[i].op = "chat"}

\* an event of that caller which ended with a value stands before position i
ReturnedBefore(who, i) ==
    \E j \in EventsBy(who) : j < i /\ events[j].out # NoneV /\ events[j].out.ok

\* C25: the stages of execute_query come in the order pre-process, plan,
\* then a direct answer or execute followed by summarize.  The planner is
\* invoked at most once and only after the rewriting model call returned,
\* the executor at most once and only after the planner returned, the
\* summarizer at most once and only after the executor returned its whole
\* result list; execute_query issues at most three model calls: the
\* rewrite, the plan and either the summary or the direct call.
C25_StageOrder ==
    /\ Cardinality(EventsBy("preprocess")) <= 1
    /\ Cardinality(EventsBy("planner")) <= 1
    /\ Cardinality(EventsBy("executor")) <= 1
    /\ Cardinality({i \in EventsBy("summarizer") : events[i].op = "call"}) <= 1
    /\ \A i \in EventsBy("preprocess") : i = 1
    /\ \A i \in EventsBy("planner") : i = 2 /\ ReturnedBefore("preprocess", i)
    /\ \A i \in EventsBy("executor") : i = 3 /\ ReturnedBefore("planner", i)
    /\ \A i \in EventsBy("summarizer") :
          /\ i > 3
          /\ EventsBy("executor") # {}
          /\ epc = "returned"
          /\ exec_ret = results_cache
          /\ events[i].op = "call" => events[i].arg = StrList(exec_ret)
    /\ \A i \in EventsBy("direct") :
          /\ i = 3
          /\ ReturnedBefore("planner", i)
          /\ EventsBy("executor") = {}
    /\ (opc = "done" /\ raisedLog = <<>> /\ EventsBy("executor") # {}) =>
          EventsBy("summarizer") # {}
    /\ Cardinality(ChatEvents) <= 3

\* C25 witness: all four stages ran and three model calls were made, the
\* last of them by the summarizer.
C25_Witness ==
    /\ opc = "done"
    /\ raisedLog = <<>>
    /\ Len(events) = 5
    /\ events[1].by = "preprocess"
    /\ events[2].by = "planner"
    /\ events[3].by = "executor"
    /\ events[4].by = "summarizer"
    /\ events[5].by = "summarizer"
    /\ Cardinality(ChatEvents) = 3
    /\ Len(exec_ret) = 2

\* ------------------------------------------ claims on execute, continued
\* how the handler invoked for plan position p ended; NoneV when the step
\* was dispatched to no handler
HandlerOutcome(p) ==
    LET outs == {i \in DOMAIN outLog : outLog[i].pos = p}
    IN IF outs = {} THEN NoneV ELSE outLog[CHOOSE i \in outs : TRUE].out

\* the text is what the outcome of the step at position p amounts to: the
\* stringified return value, the "not found" text, or the "Error
\* executing" text with the message of the exception
IsOutcomeOf(text, p) ==
    LET o == HandlerOutcome(p)
    IN IF o = NoneV
       THEN StartsWith(text, NotFoundPre) /\ Contains(text, NotFoundMarker)
       ELSE IF o.ok THEN text = Str(o.val)
       ELSE /\ StartsWith(text, ErrExecPre)
            /\ Len(text) >= Len(o.msg)
            /\ SubSeq(text, Len(text) - Len(o.msg) + 1, Len(text)) = o.msg

\* C26: when the arguments of a step are substituted, the carry is the
\* empty text if no step has been executed yet, and otherwise the outcome
\* of the most recent step that was not skipped: the stringified return
\* value of its handler, the "not found" text, or the "Error executing"
\* text.  The stringified carry is always the last element appended to the
\* result list.
C26_CarryInvariant ==
    /\ Str(last_result) = IF results_cache = <<>> THEN <<>>
                          ELSE results_cache[Len(results_cache)]
    /\ IsList(plan) =>
          \A i \in DOMAIN substLog :
              LET e == substLog[i]
                  prev == {j \in DOMAIN resultPos : resultPos[j] < e.pos}
              IN IF prev = {} THEN e.carry = <<>>
                 ELSE LET j == CHOOSE m \in prev : \A n \in prev : n <= m
                      IN /\ j = Cardinality(prev)
                         /\ e.carry = results_cache[j]
                         /\ IsOutcomeOf(e.carry, resultPos[j])
                         /\ \A q \in (resultPos[j] + 1)..(e.pos - 1) :
                               ~StructurallyValid(plan.l[q])

\* C26 witness: three steps were substituted, the second after a handler
\* that raised and the third after a tool that did not resolve.
C26_Witness ==
    /\ epc = "returned"
    /\ Len(substLog) = 3
    /\ HandlerOutcome(1) # NoneV
    /\ ~HandlerOutcome(1).ok
    /\ StartsWith(substLog[2].carry, ErrExecPre)
    /\ HandlerOutcome(2) = NoneV
    /\ Contains(substLog[3].carry, NotFoundMarker)
    /\ Contains(exec_ret[3], NotFoundMarker)

\* the repair call, if one was made, returned a text
RepairReturned ==
    IF vevents = <<>> THEN TRUE
    ELSE IF vevents[1].out.ok THEN vevents[1].out.val.t = "text"
    ELSE FALSE

\* the array the fast path extracts has an element that is no mapping
HasNonMapping ==
    IF FastArray.ok
    THEN \E i \in DOMAIN FastArray.val.l : ~IsDict(FastArray.val.l[i])
    ELSE FALSE

\* C27: for every raw text, provided the repair model call returns,
\* validate returns a list and raises nothing; a raw text that is a JSON
\* array with elements that are no mappings (numbers, null, strings) fails
\* the schema check of the fast path and goes to the repair call.
C27_ValidateNeverRaises ==
    (vraw.t = "text" /\ ValEnded /\ RepairReturned) =>
        /\ vpc = "done"
        /\ IsList(vret)
        /\ HasNonMapping => vevents # <<>>

\* ------------------------------------------- claims on LLMClient, continued
\* the chat calls that ended
ChatsEnded == {i \in DOMAIN chatLog : chatLog[i].op = "chat"}

\* the backend the client state stands for once the probe result is cached
CachedMode ==
    IF prefer_local
    THEN IF local_available = BoolV(TRUE) THEN M_local ELSE M_gemini
    ELSE M_gemini

\* C28: each chat call invokes one backend, the one the cached mode names:
\* the local backend exactly when prefer_local is set and the cached probe
\* result is true, else the remote one.  An error of the local backend
\* reaches the caller, the remote backend is not tried in that call and the
\* cached mode stays as it is.  What mode returns is the backend the next
\* chat call uses.
C28_OneBackendPerChat ==
    /\ \A i \in ChatsEnded :
          /\ chatLog[i].backend = CachedMode
          /\ IF chatLog[i].backend = M_local
             THEN /\ chatLog[i].tries = <<>>
                  /\ chatLog[i].out \in LocalOutcomes
                  /\ local_available = BoolV(TRUE)
             ELSE /\ chatLog[i].tries # <<>>
                  /\ \/ chatLog[i].out = chatLog[i].tries[Len(chatLog[i].tries)]
                     \/ chatLog[i].out = Raised("Exception", S_backend)
    /\ \A i \in DOMAIN chatLog :
          chatLog[i].op = "mode" =>
              /\ chatLog[i].out = Returned(StrV(CachedMode))
              /\ chatLog[i].tries = <<>>
              /\ \A j \in ChatsEnded : j > i => chatLog[j].backend = chatLog[i].out.val.s

\* C28 witness: mode returned "local", the chat call after it went to the
\* local backend, which raised; the error reached the caller and the cached
\* availability is still true.
C28_Witness ==
    /\ Len(chatLog) = 2
    /\ chatLog[1].op = "mode"
    /\ chatLog[1].out = Returned(StrV(M_local))
    /\ chatLog[2].op = "chat"
    /\ chatLog[2].backend = M_local
    /\ chatLog[2].out = Raised("Exception", S_refused)
    /\ local_available = BoolV(TRUE)

\* C29: executing a plan leaves the plan unchanged in both executor
\* variants; for the session-based one, once execute has returned every
\* step of the plan still holds the arguments it was given, the literal
\* token included.
C29_PlanUnchanged == spc = "returned" => splan = sgiven

\* the paths inside the sandbox: the storage root and what lies below it
Inside(p) == p = storage_root \/ StartsWith(p, storage_root \o <<"/">>)

\* C30: every path _validate_path returns is the storage root or a
\* descendant of it, so read_file and delete_file never touch a file
\* outside the storage root, whatever path they are given.
C30_StaysInStorage ==
    IF fpc = "done"
    THEN IF IsStr(fout.val) THEN Inside(fout.val.s) ELSE TRUE
    ELSE TRUE

====
